---- MODULE Spec2Model ----
(***************************************************************************)
(* Document ingestion service of base-knowledge: the upload endpoint, the  *)
(* background pipeline process_document_task, the DocumentRepository and   *)
(* the in-memory jobs_storage; and the retrieval side of the chat service: *)
(* search_similar_chunks and the DocumentAgent graph that consumes it.     *)
(*                                                                         *)
(* Each repository method is one database round trip and one step.  The    *)
(* pipeline runs in a worker thread (a sync function handed to             *)
(* BackgroundTasks), so its steps interleave with the other pipelines and  *)
(* with the store operations.  Every external call (converter, chunker,    *)
(* embedder, store, os.unlink) either returns or raises.                   *)
(*                                                                         *)
(* Specifications:                                                         *)
(*   Spec       one upload, its pipeline run and the store's deletes       *)
(*   FairSpec   Spec with the worker thread's progress                     *)
(*   PairSpec   MaxDocuments uploads whose pipeline runs interleave        *)
(*   StoreSpec  the DocumentRepository's document methods under any caller *)
(*   ChunkSpec  the DocumentRepository's chunk methods under any caller    *)
(*   DeleteSpec the delete endpoint handling requests at the same time     *)
(*   SearchSpec one search or one chat run over an ingested store          *)
(*   ConversationSpec      chat requests, one after the other              *)
(*   HistorySpec           the conversation repository called directly     *)
(*   OrchestratorSpec      one process_query run over an ingested store    *)
(*   OrchestratorFairSpec  OrchestratorSpec with the run's progress        *)
(***************************************************************************)
EXTENDS Integers, Sequences, FiniteSets, TLC

\* ---------------------------------------------------------------- bounds
MaxUploads == 1
MaxChunks == 2
\* the documents of PairSpec, StoreSpec and SearchSpec
MaxDocuments == 2
\* the largest limit a caller passes to search_similar_chunks
MaxLimit == 3
\* the rows an index scan of the approximate (HNSW) index can miss
MaxMissed == 1
\* the requests of one endpoint that are handled at the same time, the chat
\* requests made one after the other, and the conversations callers create
MaxRequests == 2
\* the messages callers of the conversation repository add
MaxMessages == 3

\* ------------------------------------------------------ program constants
EMBEDDING_DIMENSION == 1536
RETRIEVE_LIMIT == 5
VECTOR_DIMENSION == 1536
DEFAULT_EMBEDDING_DIMENSION == 1536

ALLOWED_EXTENSIONS == {".pdf", ".docx"}

\* DocumentStatus
PROCESSING == "processing"
COMPLETED == "completed"
FAILED == "failed"

\* ------------------------------------------------------------ input sets
Extensions == {".pdf", ".docx", ".txt"}
\* the text of the i-th chunk the chunker cuts from an uploaded file
SourceText(i) == <<"chunk", i>>
\* vector lengths an embedding deployment can answer with
EmbedderDims == {EMBEDDING_DIMENSION, 2 * EMBEDDING_DIMENSION}
\* the text the converter exports for an uploaded file
Markdown == <<"#", "x">>

\* a nullable column or field: None, or Some(v)
None == {}
Some(v) == {v}

VARIABLES
    documents,        \* table documents: id -> row
    next_document_id, \* the primary-key sequence of documents
    document_chunks,  \* table document_chunks: a set of rows
    next_chunk_id,    \* the primary-key sequence of document_chunks
    jobs_storage,     \* job_id -> job entry (process-local dict)
    tmp_files,        \* the temporary files that exist, by path
    task,             \* job_id -> frame of its process_document_task run:
                      \* position, arguments, locals, the history calls of
                      \* the stages it has called and the number requests
                      \* of embed_documents calls it has made
    next_tmp,         \* the upload requests so far + 1: names the temporary
                      \* file and the job of the next one
    upload_response,  \* what the last call of the upload endpoint answered,
                      \* or None
    deleted,          \* history: ids for which delete_document returned True
    delete_requests,  \* request -> frame of its DELETE /documents/{id} handler
    search,           \* the last search_similar_chunks call: arguments, results
    agent,            \* the AgentState of the DocumentAgent.chat run
    orchestrator,     \* the OrchestratorState of the process_query run, the
                      \* node it is at and the history visited of its nodes
    conversations,    \* table conversations: a set of rows
    next_conversation_id, \* the primary-key sequence of conversations
    messages,         \* table messages: the rows in the order of their creation
    chat_request,     \* the frame of the chat handler that is running
    found             \* history: session_id -> the ids of the conversations
                      \* get_or_create_conversation returned for it

\* the state of the document service
document_vars == <<documents, next_document_id, document_chunks, next_chunk_id,
                   jobs_storage, tmp_files, task, next_tmp, upload_response, deleted,
                   delete_requests>>

\* the tables of the ConversationRepository
conversation_vars == <<conversations, next_conversation_id, messages>>

\* the state of the chat service
chat_vars == <<search, agent, orchestrator, conversation_vars, chat_request, found>>

vars == <<documents, next_document_id, document_chunks, next_chunk_id,
          jobs_storage, tmp_files, task, next_tmp, upload_response, deleted,
          delete_requests, search, agent, orchestrator, conversations,
          next_conversation_id, messages, chat_request, found>>

JobIds == 1..MaxUploads
DocIds == 1..MaxUploads
ChunkIds == 1..(MaxUploads * MaxChunks)

\* ------------------------------------------------------------- the store

NewDocument_Completed ==
    [status |-> COMPLETED,
     error_message |-> None,
     markdown_content |-> None,
     markdown_length |-> None,
     num_chunks |-> 0,
     embedding_dimension |-> DEFAULT_EMBEDDING_DIMENSION,
     completed_at |-> Some("utcnow")]

\* Document(...) as create_document builds it, with the column defaults
NewDocument ==
    [status |-> PROCESSING,
     error_message |-> None,
     markdown_content |-> None,
     markdown_length |-> None,
     num_chunks |-> 0,
     embedding_dimension |-> DEFAULT_EMBEDDING_DIMENSION,
     completed_at |-> None]

\* get_document: the row, or None
get_document(docs, document_id) ==
    IF document_id \in DOMAIN docs THEN Some(docs[document_id]) ELSE None

\* get_chunks_by_document, ordered by chunk_index: here the set of rows
get_chunks_by_document(rows, document_id) ==
    {c \in rows : c.document_id = document_id}

UpdateStatusRow_CompletedIsFinal(row, status, error_message) ==
    IF row.status = COMPLETED THEN row
    ELSE [row EXCEPT !.status = status,
                     !.error_message = error_message,
                     !.completed_at = IF status = COMPLETED THEN Some("utcnow") ELSE @]

\* the rows update_document_status writes
UpdateStatusRow(row, status, error_message) ==
    [row EXCEPT !.status = status,
                !.error_message = error_message,
                !.completed_at = IF status = COMPLETED THEN Some("utcnow") ELSE @]

update_document_status_AllRows(docs, document_id, status, error_message) ==
    [d \in DOMAIN docs |-> UpdateStatusRow(docs[d], status, error_message)]

\* update_document_status: a no-op when the id is missing
update_document_status(docs, document_id, status, error_message) ==
    IF document_id \in DOMAIN docs
    THEN [docs EXCEPT ![document_id] = UpdateStatusRow(@, status, error_message)]
    ELSE docs

update_document_content_Upsert(docs, document_id, markdown_content, markdown_length, num_chunks) ==
    [d \in DOMAIN docs \cup {document_id} |->
        [IF d \in DOMAIN docs THEN docs[d] ELSE NewDocument
            EXCEPT !.markdown_content = IF d = document_id THEN Some(markdown_content) ELSE @,
                   !.markdown_length = IF d = document_id THEN Some(markdown_length) ELSE @,
                   !.num_chunks = IF d = document_id THEN num_chunks ELSE @]]

\* update_document_content: a no-op when the id is missing
update_document_content(docs, document_id, markdown_content, markdown_length, num_chunks) ==
    IF document_id \in DOMAIN docs
    THEN [docs EXCEPT ![document_id] =
            [@ EXCEPT !.markdown_content = Some(markdown_content),
                      !.markdown_length = Some(markdown_length),
                      !.num_chunks = num_chunks]]
    ELSE docs

ForeignKeyOk_Unchecked(docs, document_id) == TRUE

\* the foreign key document_chunks.document_id -> documents.id
ForeignKeyOk(docs, document_id) == document_id \in DOMAIN docs

VectorOk_AnyLength(embedding) == TRUE

\* the column type Vector(1536) accepts NULL and vectors of that length
VectorOk(embedding) ==
    \A v \in embedding : v.len = VECTOR_DIMENSION

\* the rows create_chunks_batch builds from chunks_data, ids from the sequence
BatchRows(document_id, chunks_data, first_id) ==
    {[id |-> first_id + i - 1,
      document_id |-> document_id,
      chunk_index |-> chunks_data[i].chunk_index,
      text |-> chunks_data[i].text,
      embedding |-> chunks_data[i].embedding] : i \in 1..Len(chunks_data)}

BatchValid(docs, document_id, chunks_data) ==
    /\ ForeignKeyOk(docs, document_id)
    /\ \A i \in 1..Len(chunks_data) : VectorOk(chunks_data[i].embedding)

\* the batch written over the rows the document already has
BulkSave_Replace(rows, docs, document_id, chunks_data, first_id) ==
    IF ForeignKeyOk(docs, document_id)
          /\ \A i \in 1..Len(chunks_data) : VectorOk(chunks_data[i].embedding)
    THEN {c \in rows : c.document_id # document_id}
            \cup BatchRows(document_id, chunks_data, first_id)
    ELSE rows

\* each row committed on its own, as create_chunk does
BulkSave_RowByRow(rows, docs, document_id, chunks_data, first_id) ==
    rows \cup {r \in BatchRows(document_id, chunks_data, first_id) :
                 ForeignKeyOk(docs, document_id) /\ VectorOk(r.embedding)}

\* bulk_save_objects + commit: one transaction, committed only when every
\* row was accepted
BulkSave(rows, docs, document_id, chunks_data, first_id) ==
    IF BatchValid(docs, document_id, chunks_data)
    THEN rows \cup BatchRows(document_id, chunks_data, first_id)
    ELSE rows

CascadeDelete_KeepChunks(rows, document_id) == rows

\* ON DELETE CASCADE and cascade="all, delete-orphan"
CascadeDelete(rows, document_id) ==
    {c \in rows : c.document_id # document_id}

\* no search_similar_chunks call yet
NoSearch == [outcome |-> "none"]

\* no DocumentAgent.chat call yet
Idle == [node |-> "idle"]

\* no process_query call yet
NoQuery == [node |-> "idle"]

\* no chat request is being handled
NoRequest == [pc |-> "idle"]

\* ------------------------------------------------------------------ Init

Init ==
    /\ documents = <<>>
    /\ next_document_id = 1
    /\ document_chunks = {}
    /\ next_chunk_id = 1
    /\ jobs_storage = <<>>
    /\ tmp_files = {}
    /\ task = <<>>
    /\ next_tmp = 1
    /\ upload_response = None
    /\ deleted = {}
    /\ delete_requests = <<>>
    /\ search = NoSearch
    /\ agent = Idle
    /\ orchestrator = NoQuery
    /\ conversations = {}
    /\ next_conversation_id = 1
    /\ messages = <<>>
    /\ chat_request = NoRequest
    /\ found = <<>>

\* ---------------------------------------------------------------- upload

\* the job entry upload_document stores
NewJob(document_id) ==
    [document_id |-> document_id,
     status |-> "processing",
     completed_at |-> None,
     error |-> None,
     result |-> None]

\* the frame of a scheduled process_document_task
NewTask(document_id, tmp_file_path) ==
    [pc |-> "convert",
     document_id |-> document_id,
     tmp_file_path |-> tmp_file_path,
     markdown_content |-> None,
     chunks |-> <<>>,
     embeddings_data |-> <<>>,
     e |-> None,
     calls |-> <<>>,
     requests |-> 0]

\* what the endpoint answers: the JSONResponse of an accepted upload
Accepted_WithoutIds(job_id, document_id) ==
    [status_code |-> 200, detail |-> "processing", job_id |-> None, document_id |-> None]

Accepted(job_id, document_id) ==
    [status_code |-> 200, detail |-> "processing",
     job_id |-> Some(job_id), document_id |-> Some(document_id)]

\* ... and an HTTPException
HTTPException(status_code, detail) ==
    [status_code |-> status_code, detail |-> detail, job_id |-> None, document_id |-> None]

Validation_KeyUnchecked(file_extension, has_key) ==
    IF file_extension \notin ALLOWED_EXTENSIONS
    THEN Some(HTTPException(400, "Unsupported file format"))
    ELSE None

\* the two checks at the head of upload_document: the exception raised, or None
Validation(file_extension, has_key) ==
    IF file_extension \notin ALLOWED_EXTENSIONS
    THEN Some(HTTPException(400, "Unsupported file format"))
    ELSE IF ~has_key
    THEN Some(HTTPException(500, "OpenAI API key not configured"))
    ELSE None

\* how writing the temporary file can end: the file is written; the file is
\* created (delete=False) and reading or writing the upload raises; no file
\* is created
TmpFileOutcomes == {"written", "write failed", "not created"}

CleanUp_Skipped(files, tmp_file_path, unlink_ok) == files

\* the handler's clean-up: os.unlink in a try whose failure is swallowed
CleanUp(files, tmp_file_path, unlink_ok) ==
    IF unlink_ok THEN files \ {tmp_file_path} ELSE files

\* POST /documents/upload.  file_extension is the lower-cased suffix of the
\* file name, has_key says whether OPENAI_API_KEY is set, tmp_file how the
\* temporary file was written, create_ok whether create_document returns,
\* unlink_ok whether the clean-up's os.unlink does.
upload_document(file_extension, has_key, tmp_file, create_ok, unlink_ok) ==
    /\ IF Validation(file_extension, has_key) # None
       THEN /\ upload_response' = Validation(file_extension, has_key)
            /\ UNCHANGED <<documents, next_document_id, jobs_storage, tmp_files, task>>
       ELSE IF tmp_file # "written"
       THEN /\ upload_response' = Some(HTTPException(500, "Processing failed"))
            /\ tmp_files' = IF tmp_file = "write failed"
                             THEN tmp_files \cup {next_tmp} ELSE tmp_files
            /\ UNCHANGED <<documents, next_document_id, jobs_storage, task>>
       ELSE IF ~create_ok
       THEN /\ upload_response' = Some(HTTPException(500, "Processing failed"))
            /\ tmp_files' = CleanUp(tmp_files \cup {next_tmp}, next_tmp, unlink_ok)
            /\ UNCHANGED <<documents, next_document_id, jobs_storage, task>>
       ELSE /\ upload_response' = Some(Accepted(next_tmp, next_document_id))
            /\ tmp_files' = tmp_files \cup {next_tmp}
            /\ documents' = documents @@ (next_document_id :> NewDocument)
            /\ next_document_id' = next_document_id + 1
            /\ jobs_storage' = jobs_storage @@ (next_tmp :> NewJob(next_document_id))
            /\ task' = task @@ (next_tmp :> NewTask(next_document_id, next_tmp))
    /\ next_tmp' = next_tmp + 1
    /\ UNCHANGED <<document_chunks, next_chunk_id, deleted>>
    /\ UNCHANGED <<delete_requests, chat_vars>>

\* -------------------------------------------------- process_document_task

At(job_id, pc) == job_id \in DOMAIN task /\ task[job_id].pc = pc

StageAfter_PersistBeforeEmbed(pc) ==
    CASE pc = "convert" -> "chunk"
      [] pc = "chunk" -> "update_content"
      [] pc = "update_content" -> "embed"
      [] pc = "embed" -> "create_chunks"
      [] pc = "create_chunks" -> "update_status"
      [] pc = "update_status" -> "unlink"

StageAfter_StatusBeforeChunks(pc) ==
    CASE pc = "convert" -> "chunk"
      [] pc = "chunk" -> "embed"
      [] pc = "embed" -> "update_content"
      [] pc = "update_content" -> "update_status"
      [] pc = "update_status" -> "create_chunks"
      [] pc = "create_chunks" -> "unlink"

\* the statement after each stage's call in the try block
StageAfter(pc) ==
    CASE pc = "convert" -> "chunk"
      [] pc = "chunk" -> "embed"
      [] pc = "embed" -> "update_content"
      [] pc = "update_content" -> "create_chunks"
      [] pc = "create_chunks" -> "update_status"
      [] pc = "update_status" -> "unlink"

\* the frame after the stage at its pc was called
Called(frame) == [frame EXCEPT !.calls = Append(@, frame.pc)]

\* the stage's call returned: on to the next statement
Return(job_id) ==
    task' = [task EXCEPT ![job_id] = [Called(@) EXCEPT !.pc = StageAfter(task[job_id].pc)]]

Goto(job_id, pc) == task' = [task EXCEPT ![job_id].pc = pc]

\* the locals of the try block are not read again
Leave(frame, pc) ==
    [frame EXCEPT !.pc = pc, !.markdown_content = None, !.chunks = <<>>,
                  !.embeddings_data = <<>>]

\* an exception inside the try block: control goes to the except clause,
\* which reads only e
Raise(job_id, message) ==
    task' = [task EXCEPT ![job_id] = [Leave(@, "except") EXCEPT !.e = Some(message)]]

\* the stage's call raised
RaiseIn(job_id, message) ==
    task' = [task EXCEPT ![job_id] =
               [Leave(Called(@), "except") EXCEPT !.e = Some(message)]]

\* what the chunker can answer: up to MaxChunks chunks, in source order
ChunkLists == {[i \in 1..n |-> SourceText(i)] : n \in 0..MaxChunks}

EmbeddingsData_Reversed(chunks, vectors) ==
    [i \in 1..Len(chunks) |->
        [chunk_id |-> i - 1,
         text |-> chunks[i],
         embedding |-> vectors[Len(chunks) - i + 1],
         embedding_dimension |-> vectors[Len(chunks) - i + 1].len]]

\* generate_embeddings: vectors[i] is the embedder's answer for chunks[i]
EmbeddingsData(chunks, vectors) ==
    [i \in 1..Len(chunks) |->
        [chunk_id |-> i - 1,
         text |-> chunks[i],
         embedding |-> vectors[i],
         embedding_dimension |-> vectors[i].len]]

\* the chunks_data list process_document_task hands to create_chunks_batch
ChunksData(embeddings_data) ==
    [i \in 1..Len(embeddings_data) |->
        [chunk_index |-> embeddings_data[i].chunk_id,
         text |-> embeddings_data[i].text,
         embedding |-> Some(embeddings_data[i].embedding)]]

\* Steps 1 and 2: convert_document and export_to_markdown
Convert(job_id) ==
    /\ At(job_id, "convert")
    /\ \/ task' = [task EXCEPT ![job_id] =
                     [Called(@) EXCEPT !.pc = StageAfter("convert"),
                                       !.markdown_content = Some(Markdown)]]
       \/ RaiseIn(job_id, "Document conversion failed")
    /\ UNCHANGED <<documents, next_document_id, document_chunks, next_chunk_id,
                   jobs_storage, tmp_files, next_tmp, upload_response, deleted>>
    /\ UNCHANGED <<delete_requests, chat_vars>>

\* Step 3: hybrid_chunk_document
Chunk(job_id) ==
    /\ At(job_id, "chunk")
    /\ \/ \E chunks \in ChunkLists :
            task' = [task EXCEPT ![job_id] =
                       [Called(@) EXCEPT !.pc = StageAfter("chunk"), !.chunks = chunks]]
       \/ RaiseIn(job_id, "Text chunking failed")
    /\ UNCHANGED <<documents, next_document_id, document_chunks, next_chunk_id,
                   jobs_storage, tmp_files, next_tmp, upload_response, deleted>>
    /\ UNCHANGED <<delete_requests, chat_vars>>

EmbedRequests_PerChunk(chunk_texts) ==
    [i \in 1..Len(chunk_texts) |-> <<chunk_texts[i]>>]

\* the embed_documents calls generate_embeddings makes for chunk_texts
EmbedRequests(chunk_texts) == <<chunk_texts>>

\* the frame after generate_embeddings sent chunk_texts to the embedder
Requested(frame, chunk_texts) ==
    [frame EXCEPT !.requests = @ + Len(EmbedRequests(chunk_texts))]

\* Step 4: generate_embeddings: it creates the embeddings client, calls
\* embed_documents once with all the texts and pairs the vectors with the
\* chunks; every exception becomes "Embedding generation failed"
Embed(job_id) ==
    /\ At(job_id, "embed")
    /\ \/ \E lens \in [1..Len(task[job_id].chunks) -> EmbedderDims] :
            LET vectors == [i \in 1..Len(task[job_id].chunks) |->
                               [of |-> task[job_id].chunks[i], len |-> lens[i]]]
            IN task' = [task EXCEPT ![job_id] =
                          [Requested(Called(@), task[job_id].chunks)
                              EXCEPT !.pc = StageAfter("embed"),
                                     !.embeddings_data =
                                         EmbeddingsData(task[job_id].chunks, vectors)]]
       \/ \* embed_documents raised
          task' = [task EXCEPT ![job_id] =
                     [Leave(Requested(Called(@), task[job_id].chunks), "except")
                         EXCEPT !.e = Some("Embedding generation failed")]]
       \/ \* _create_embeddings_client raised
          RaiseIn(job_id, "Embedding generation failed")
    /\ UNCHANGED <<documents, next_document_id, document_chunks, next_chunk_id,
                   jobs_storage, tmp_files, next_tmp, upload_response, deleted>>
    /\ UNCHANGED <<delete_requests, chat_vars>>

\* Step 5a: repo.update_document_content
UpdateContent(job_id) ==
    /\ At(job_id, "update_content")
    /\ \/ /\ documents' = update_document_content(documents, task[job_id].document_id,
                              Markdown, Len(Markdown), Len(task[job_id].chunks))
          /\ Return(job_id)
       \/ /\ RaiseIn(job_id, "update_document_content failed")
          /\ UNCHANGED documents
    /\ UNCHANGED <<next_document_id, document_chunks, next_chunk_id,
                   jobs_storage, tmp_files, next_tmp, upload_response, deleted>>
    /\ UNCHANGED <<delete_requests, chat_vars>>

\* Step 5b: repo.create_chunks_batch
CreateChunks(job_id) ==
    /\ At(job_id, "create_chunks")
    /\ LET document_id == task[job_id].document_id
           chunks_data == ChunksData(task[job_id].embeddings_data)
       IN \/ /\ BatchValid(documents, document_id, chunks_data)
             /\ document_chunks' = BulkSave(document_chunks, documents, document_id,
                                            chunks_data, next_chunk_id)
             /\ next_chunk_id' = next_chunk_id + Len(chunks_data)
             /\ Return(job_id)
          \/ /\ \E i \in 1..Len(chunks_data) : ~VectorOk(chunks_data[i].embedding)
             /\ document_chunks' = BulkSave(document_chunks, documents, document_id,
                                            chunks_data, next_chunk_id)
             /\ UNCHANGED next_chunk_id
             /\ RaiseIn(job_id, "expected 1536 dimensions")
          \/ /\ \A i \in 1..Len(chunks_data) : VectorOk(chunks_data[i].embedding)
             /\ ~BatchValid(documents, document_id, chunks_data)
             /\ document_chunks' = BulkSave(document_chunks, documents, document_id,
                                            chunks_data, next_chunk_id)
             /\ UNCHANGED next_chunk_id
             /\ RaiseIn(job_id, "foreign key violation")
          \/ /\ RaiseIn(job_id, "create_chunks_batch failed")
             /\ UNCHANGED <<document_chunks, next_chunk_id>>
    /\ UNCHANGED <<documents, next_document_id, jobs_storage, tmp_files, next_tmp,
                   upload_response, deleted>>
    /\ UNCHANGED <<delete_requests, chat_vars>>

\* Step 5c: repo.update_document_status(document_id, COMPLETED)
UpdateStatus(job_id) ==
    /\ At(job_id, "update_status")
    /\ \/ /\ documents' = update_document_status(documents, task[job_id].document_id,
                                                 COMPLETED, None)
          /\ Return(job_id)
       \/ /\ RaiseIn(job_id, "update_document_status failed")
          /\ UNCHANGED documents
    /\ UNCHANGED <<next_document_id, document_chunks, next_chunk_id,
                   jobs_storage, tmp_files, next_tmp, upload_response, deleted>>
    /\ UNCHANGED <<delete_requests, chat_vars>>

\* os.unlink(tmp_file_path) of the success path
Unlink(job_id) ==
    /\ At(job_id, "unlink")
    /\ \/ /\ task[job_id].tmp_file_path \in tmp_files
          /\ tmp_files' = tmp_files \ {task[job_id].tmp_file_path}
          /\ Goto(job_id, "job_status")
       \/ /\ Raise(job_id, "unlink failed")
          /\ UNCHANGED tmp_files
    /\ UNCHANGED <<documents, next_document_id, document_chunks, next_chunk_id,
                   jobs_storage, next_tmp, upload_response, deleted>>
    /\ UNCHANGED <<delete_requests, chat_vars>>

\* the DocumentProcessingResponse of a successful run
Result(frame) ==
    [status |-> "success",
     num_chunks |-> Len(frame.chunks),
     embeddings |-> Len(frame.embeddings_data)]

SetStatus_Dropped(entry, status) == entry

\* jobs_storage[job_id]["status"] = status
SetStatus(entry, status) == [entry EXCEPT !.status = status]

\* jobs_storage[job_id]["status"] = "completed" (after building the result)
JobStatus(job_id) ==
    /\ At(job_id, "job_status")
    /\ jobs_storage' = [jobs_storage EXCEPT ![job_id] = SetStatus(@, "completed")]
    /\ Goto(job_id, "job_completed_at")
    /\ UNCHANGED <<documents, next_document_id, document_chunks, next_chunk_id,
                   tmp_files, next_tmp, upload_response, deleted>>
    /\ UNCHANGED <<delete_requests, chat_vars>>

\* jobs_storage[job_id]["completed_at"] = datetime.now().isoformat()
JobCompletedAt(job_id) ==
    /\ At(job_id, "job_completed_at")
    /\ jobs_storage' = [jobs_storage EXCEPT ![job_id].completed_at = Some("now")]
    /\ Goto(job_id, "job_result")
    /\ UNCHANGED <<documents, next_document_id, document_chunks, next_chunk_id,
                   tmp_files, next_tmp, upload_response, deleted>>
    /\ UNCHANGED <<delete_requests, chat_vars>>

\* jobs_storage[job_id]["result"] = result, then finally: db.close()
JobResult(job_id) ==
    /\ At(job_id, "job_result")
    /\ jobs_storage' = [jobs_storage EXCEPT ![job_id].result = Some(Result(task[job_id]))]
    /\ task' = [task EXCEPT ![job_id] = Leave(@, "returned")]
    /\ UNCHANGED <<documents, next_document_id, document_chunks, next_chunk_id,
                   tmp_files, next_tmp, upload_response, deleted>>
    /\ UNCHANGED <<delete_requests, chat_vars>>

\* except: repo.update_document_status(document_id, FAILED, str(e)).  The
\* call is not guarded: when it raises, the exception leaves the function
\* through finally.
ExceptStatus(job_id) ==
    /\ At(job_id, "except")
    /\ \/ /\ documents' = update_document_status(documents, task[job_id].document_id,
                                                 FAILED, task[job_id].e)
          /\ Goto(job_id, "except_unlink")
       \/ /\ task' = [task EXCEPT ![job_id] = Leave(@, "raised")]
          /\ UNCHANGED documents
    /\ UNCHANGED <<next_document_id, document_chunks, next_chunk_id,
                   jobs_storage, tmp_files, next_tmp, upload_response, deleted>>
    /\ UNCHANGED <<delete_requests, chat_vars>>

\* except: try: os.unlink(tmp_file_path) except: pass
ExceptUnlink(job_id) ==
    /\ At(job_id, "except_unlink")
    /\ \/ /\ task[job_id].tmp_file_path \in tmp_files
          /\ tmp_files' = tmp_files \ {task[job_id].tmp_file_path}
       \/ UNCHANGED tmp_files
    /\ Goto(job_id, "except_job_status")
    /\ UNCHANGED <<documents, next_document_id, document_chunks, next_chunk_id,
                   jobs_storage, next_tmp, upload_response, deleted>>
    /\ UNCHANGED <<delete_requests, chat_vars>>

\* except: jobs_storage[job_id]["status"] = "failed"
ExceptJobStatus(job_id) ==
    /\ At(job_id, "except_job_status")
    /\ jobs_storage' = [jobs_storage EXCEPT ![job_id] = SetStatus(@, "failed")]
    /\ Goto(job_id, "except_job_completed_at")
    /\ UNCHANGED <<documents, next_document_id, document_chunks, next_chunk_id,
                   tmp_files, next_tmp, upload_response, deleted>>
    /\ UNCHANGED <<delete_requests, chat_vars>>

\* except: jobs_storage[job_id]["completed_at"] = datetime.now().isoformat()
ExceptJobCompletedAt(job_id) ==
    /\ At(job_id, "except_job_completed_at")
    /\ jobs_storage' = [jobs_storage EXCEPT ![job_id].completed_at = Some("now")]
    /\ Goto(job_id, "except_job_error")
    /\ UNCHANGED <<documents, next_document_id, document_chunks, next_chunk_id,
                   tmp_files, next_tmp, upload_response, deleted>>
    /\ UNCHANGED <<delete_requests, chat_vars>>

\* except: jobs_storage[job_id]["error"] = str(e), then finally: db.close()
ExceptJobError(job_id) ==
    /\ At(job_id, "except_job_error")
    /\ jobs_storage' = [jobs_storage EXCEPT ![job_id].error = task[job_id].e]
    /\ task' = [task EXCEPT ![job_id] = Leave(@, "returned")]
    /\ UNCHANGED <<documents, next_document_id, document_chunks, next_chunk_id,
                   tmp_files, next_tmp, upload_response, deleted>>
    /\ UNCHANGED <<delete_requests, chat_vars>>

process_document_task(job_id) ==
    \/ Convert(job_id)
    \/ Chunk(job_id)
    \/ Embed(job_id)
    \/ UpdateContent(job_id)
    \/ CreateChunks(job_id)
    \/ UpdateStatus(job_id)
    \/ Unlink(job_id)
    \/ JobStatus(job_id)
    \/ JobCompletedAt(job_id)
    \/ JobResult(job_id)
    \/ ExceptStatus(job_id)
    \/ ExceptUnlink(job_id)
    \/ ExceptJobStatus(job_id)
    \/ ExceptJobCompletedAt(job_id)
    \/ ExceptJobError(job_id)

\* ------------------------------------------- store operations of a caller

\* DocumentRepository.delete_document: True when the row existed
delete_document(document_id) ==
    /\ IF document_id \in DOMAIN documents
       THEN /\ documents' = [d \in DOMAIN documents \ {document_id} |-> documents[d]]
            /\ document_chunks' = CascadeDelete(document_chunks, document_id)
            /\ deleted' = deleted \cup {document_id}
       ELSE UNCHANGED <<documents, document_chunks, deleted>>
    /\ UNCHANGED <<next_document_id, next_chunk_id, jobs_storage, tmp_files, task,
                   next_tmp, upload_response>>
    /\ UNCHANGED <<delete_requests, chat_vars>>

\* DocumentRepository.delete_chunk: True when the row existed
delete_chunk(chunk_id) ==
    /\ document_chunks' = {c \in document_chunks : c.id # chunk_id}
    /\ UNCHANGED <<documents, next_document_id, next_chunk_id, jobs_storage,
                   tmp_files, task, next_tmp, upload_response, deleted>>
    /\ UNCHANGED <<delete_requests, chat_vars>>

\* DocumentRepository.delete_chunks_by_document: the number of rows deleted
delete_chunks_by_document(document_id) ==
    /\ document_chunks' = {c \in document_chunks : c.document_id # document_id}
    /\ UNCHANGED <<documents, next_document_id, next_chunk_id, jobs_storage,
                   tmp_files, task, next_tmp, upload_response, deleted>>
    /\ UNCHANGED <<delete_requests, chat_vars>>

\* --------------------------------------------- DELETE /documents/{id}

\* the DeleteResponse of a deletion
Deleted(document_id) ==
    [status_code |-> 200, detail |-> "Document deleted successfully",
     job_id |-> None, document_id |-> Some(document_id)]

\* the handler's first statement: repo.get_document(document_id), and the
\* 404 when it finds no row
route_delete_document(request, document_id) ==
    /\ request \notin DOMAIN delete_requests
    /\ delete_requests' = delete_requests @@ (request :>
          IF get_document(documents, document_id) = None
          THEN [pc |-> "responded", document_id |-> document_id, deleted |-> None,
                response |-> Some(HTTPException(404, "Document not found"))]
          ELSE [pc |-> "delete", document_id |-> document_id, deleted |-> None,
                response |-> None])
    /\ UNCHANGED <<documents, next_document_id, document_chunks, next_chunk_id,
                   jobs_storage, tmp_files, task, next_tmp, upload_response, deleted>>
    /\ UNCHANGED chat_vars

\* the handler's second statement: deleted = repo.delete_document(document_id),
\* and the answer it builds from deleted
route_delete_document_delete(request) ==
    /\ request \in DOMAIN delete_requests
    /\ delete_requests[request].pc = "delete"
    /\ LET document_id == delete_requests[request].document_id
       IN IF document_id \in DOMAIN documents
          THEN /\ documents' = [d \in DOMAIN documents \ {document_id} |-> documents[d]]
               /\ document_chunks' = CascadeDelete(document_chunks, document_id)
               /\ deleted' = deleted \cup {document_id}
               /\ delete_requests' = [delete_requests EXCEPT ![request] =
                     [@ EXCEPT !.pc = "responded", !.deleted = Some(TRUE),
                               !.response = Some(Deleted(document_id))]]
          ELSE /\ UNCHANGED <<documents, document_chunks, deleted>>
               /\ delete_requests' = [delete_requests EXCEPT ![request] =
                     [@ EXCEPT !.pc = "responded", !.deleted = Some(FALSE),
                               !.response =
                                 Some(HTTPException(500, "Failed to delete document"))]]
    /\ UNCHANGED <<next_document_id, next_chunk_id, jobs_storage, tmp_files, task,
                   next_tmp, upload_response>>
    /\ UNCHANGED chat_vars

\* ------------------------------------------------------ similarity search

\* where the embedding model puts a text: texts with the same number lie in
\* the same direction, and all vectors have the same norm
Points == << <<5, 0>>, <<4, 3>>, <<3, 4>>, <<0, 5>>, <<-3, 4>>, <<-5, 0>> >>
Coordinates(v) == Points[((v.of[2] - 1) % Len(Points)) + 1]
Dot(a, b) == a[1] * b[1] + a[2] * b[2]

\* the number 1 in the fixed-point scale of the distances: |a| * |b|
Unit == Dot(Points[1], Points[1])

\* the operator <=>: 1 - a.b / (|a| |b|), in units of 1 / Unit
cosine_distance(a, b) == Unit - Dot(Coordinates(a), Coordinates(b))

\* embed_query: the embedding deployment answers with vectors of length len
embed_query(query, len) == [of |-> query, len |-> len]

\* the questions asked: one in the direction of each chunk text, one beyond
Queries == {<<"query", i>> : i \in 1..(MaxChunks + 1)}

\* the document_id argument: None, or an integer
Scopes == {None} \cup {Some(d) : d \in 0..MaxDocuments}

\* "if document_id:" holds for an integer other than 0
Truthy(document_id) == document_id # None /\ document_id # Some(0)

Filter_Unscoped(rows, document_id) == rows

\* query.filter(DocumentChunk.document_id == document_id), when given
Filter(rows, document_id) ==
    IF Truthy(document_id)
    THEN {c \in rows : Some(c.document_id) = document_id}
    ELSE rows

\* the rows a scan returns: all of them, or all but a few when the planner
\* uses idx_document_chunks_embedding_hnsw
IndexScans(rows) ==
    {rows \ missed : missed \in {m \in SUBSET rows : Cardinality(m) <= MaxMissed}}

\* the selected columns: the row and its distance to the query embedding
Distances(rows, embedding) ==
    {[chunk |-> c, distance |-> cosine_distance(CHOOSE v \in c.embedding : TRUE, embedding)] :
        c \in rows}

Last(pairs) == {p \in pairs : \A o \in pairs : p.distance >= o.distance}

\* asc("distance"): the pairs that can come first
First(pairs) == {p \in pairs : \A o \in pairs : p.distance <= o.distance}

\* order_by: every order the sort can give (equal distances in any order)
RECURSIVE OrderBy(_)
OrderBy(pairs) ==
    IF pairs = {} THEN {<<>>}
    ELSE UNION {{<<p>> \o rest : rest \in OrderBy(pairs \ {p})} : p \in First(pairs)}

\* .limit(limit)
Limit(rows, limit) ==
    IF limit < Len(rows) THEN SubSeq(rows, 1, limit) ELSE rows

SearchError_NotFound(rows, embedding) ==
    IF rows = {} THEN Some("not found")
    ELSE IF embedding.len # VECTOR_DIMENSION THEN Some("different vector dimensions")
    ELSE None

\* the error the query raises by itself: <=> rejects operands of different
\* lengths, on the first row it is evaluated for
SearchError(rows, embedding) ==
    IF rows # {} /\ embedding.len # VECTOR_DIMENSION
    THEN Some("different vector dimensions")
    ELSE None

\* search_similar_chunks: the lists of (chunk, distance) it can return
search_similar_chunks(rows, embedding, limit, document_id) ==
    UNION {{Limit(ordered, limit) :
              ordered \in OrderBy(Distances(Filter(scan, document_id), embedding))} :
           scan \in IndexScans(rows)}

\* the record of a call: its arguments and how it ended
Searched(embedding, limit, document_id, error, results) ==
    [outcome |-> IF error = None THEN "returned" ELSE "raised",
     embedding |-> embedding,
     limit |-> limit,
     document_id |-> document_id,
     error |-> error,
     results |-> results]

\* the ways a call can end: the query's own error, a failure of the
\* connection, or one of the lists
SearchOutcomes(rows, embedding, limit, document_id) ==
    LET error == SearchError(Filter(rows, document_id), embedding)
    IN {Searched(embedding, limit, document_id, Some("OperationalError"), <<>>)}
       \cup (IF error # None
             THEN {Searched(embedding, limit, document_id, error, <<>>)}
             ELSE {Searched(embedding, limit, document_id, None, results) :
                     results \in search_similar_chunks(rows, embedding, limit, document_id)})

\* DocumentRepository.search_similar_chunks, called with any arguments
repo_search_similar_chunks(embedding, limit, document_id) ==
    /\ search = NoSearch
    /\ agent = Idle
    /\ search' \in SearchOutcomes(document_chunks, embedding, limit, document_id)
    /\ UNCHANGED document_vars
    /\ UNCHANGED <<agent, orchestrator, conversation_vars, chat_request, found>>

\* ----------------------------------------------------------- DocumentAgent

\* the AgentState chat() starts the graph with, at the entry point
InitialState(query) ==
    [node |-> "retrieve",
     query |-> query,
     context |-> <<>>,
     analysis |-> "",
     final_response |-> "",
     next_action |-> "retrieve",
     response |-> None]

\* 1 - float(distance)
Similarity(distance) == Unit - distance

\* the context list _retrieve_context builds from the results
Context(results) ==
    [i \in 1..Len(results) |->
        [text |-> results[i].chunk.text,
         document_id |-> results[i].chunk.document_id,
         chunk_index |-> results[i].chunk.chunk_index,
         similarity |-> Similarity(results[i].distance)]]

route_next_AnalyzeBeforeRespond(next_action) ==
    IF next_action \in {"analyze", "respond"} THEN "analyze" ELSE "END"

\* _route_next: the node the conditional edge leads to
route_next(next_action) ==
    IF next_action = "analyze" THEN "analyze"
    ELSE IF next_action = "respond" THEN "respond"
    ELSE "END"

\* DocumentAgent.chat: builds the initial state and invokes the graph
chat(query) ==
    /\ agent = Idle
    /\ search = NoSearch
    /\ agent' = InitialState(query)
    /\ UNCHANGED document_vars
    /\ UNCHANGED <<search, orchestrator, conversation_vars, chat_request, found>>

\* node retrieve: _retrieve_context.  embed_ok says whether embed_query
\* returns, len is the length of the vector it returns.
retrieve_context(embed_ok, len) ==
    /\ agent.node = "retrieve"
    /\ IF ~embed_ok
       THEN /\ agent' = [agent EXCEPT !.context = <<>>, !.next_action = "respond",
                                       !.node = route_next("respond")]
            /\ UNCHANGED search
       ELSE /\ search' \in SearchOutcomes(document_chunks, embed_query(agent.query, len),
                                           RETRIEVE_LIMIT, None)
            /\ agent' = IF search'.outcome = "returned"
                         THEN [agent EXCEPT !.context = Context(search'.results),
                                            !.next_action = "analyze",
                                            !.node = route_next("analyze")]
                         ELSE [agent EXCEPT !.context = <<>>, !.next_action = "respond",
                                            !.node = route_next("respond")]
    /\ UNCHANGED document_vars
    /\ UNCHANGED <<orchestrator, conversation_vars, chat_request, found>>

\* node analyze: _analyze_context.  llm_ok says whether llm.invoke returns.
analyze_context(llm_ok) ==
    /\ agent.node = "analyze"
    /\ agent' = [agent EXCEPT
                   !.analysis = IF agent.context = <<>>
                                THEN "No relevant documents found in the knowledge base."
                                ELSE IF llm_ok THEN "analysis"
                                ELSE "Error occurred during analysis.",
                   !.next_action = "respond",
                   !.node = route_next("respond")]
    /\ UNCHANGED document_vars
    /\ UNCHANGED <<search, orchestrator, conversation_vars, chat_request, found>>

\* node respond: _generate_response
generate_response(llm_ok) ==
    /\ agent.node = "respond"
    /\ agent' = [agent EXCEPT
                   !.final_response = IF llm_ok THEN "response"
                                      ELSE "I apologize, but I encountered an error",
                   !.next_action = "end",
                   !.node = route_next("end")]
    /\ UNCHANGED document_vars
    /\ UNCHANGED <<search, orchestrator, conversation_vars, chat_request, found>>

\* DocumentAgent.chat: the graph has ended, the dict it returns
chat_return ==
    /\ agent.node = "END"
    /\ agent' = [agent EXCEPT
                   !.node = "returned",
                   !.response = Some([response |-> agent.final_response,
                                      num_sources |-> Len(agent.context)])]
    /\ UNCHANGED document_vars
    /\ UNCHANGED <<search, orchestrator, conversation_vars, chat_request, found>>

\* ------------------------------------------------------- AgentOrchestrator

\* a str is the sequence of its characters
DOCUMENT_LIST == <<"D", "O", "C", "U", "M", "E", "N", "T", "_", "L", "I", "S", "T">>
RAG == <<"R", "A", "G">>
WEBSEARCH == <<"W", "E", "B", "S", "E", "A", "R", "C", "H">>

Whitespace == {" ", "\n", "\t"}
Lowercase == <<"a", "b", "c", "d", "e", "f", "g", "h", "i", "j", "k", "l", "m",
               "n", "o", "p", "q", "r", "s", "t", "u", "v", "w", "x", "y", "z">>
Uppercase == <<"A", "B", "C", "D", "E", "F", "G", "H", "I", "J", "K", "L", "M",
               "N", "O", "P", "Q", "R", "S", "T", "U", "V", "W", "X", "Y", "Z">>

\* str.strip()
RECURSIVE strip(_)
strip(text) ==
    IF text = <<>> THEN text
    ELSE IF Head(text) \in Whitespace THEN strip(Tail(text))
    ELSE IF text[Len(text)] \in Whitespace THEN strip(SubSeq(text, 1, Len(text) - 1))
    ELSE text

\* str.upper()
upper(text) ==
    [i \in 1..Len(text) |->
        IF \E k \in 1..Len(Lowercase) : Lowercase[k] = text[i]
        THEN Uppercase[CHOOSE k \in 1..Len(Lowercase) : Lowercase[k] = text[i]]
        ELSE text[i]]

\* what the router LLM can answer with (response.content)
RouterAnswers ==
    {RAG, WEBSEARCH, DOCUMENT_LIST,
     <<" ", "r", "a", "g", "\n">>,
     <<"w", "e", "b", "s", "e", "a", "r", "c", "h">>,
     <<"D", "o", "c", "u", "m", "e", "n", "t", "_", "l", "i", "s", "t">>,
     <<"R", "A", "G", ".">>,
     <<"W", "E", "B", " ", "S", "E", "A", "R", "C", "H">>,
     <<>>}

SelectedAgent_DefaultWebSearch(content) ==
    IF upper(strip(content)) \in {DOCUMENT_LIST, RAG, WEBSEARCH}
    THEN upper(strip(content))
    ELSE WEBSEARCH

\* _route_query: the selected agent for the router's answer
SelectedAgent(content) ==
    IF upper(strip(content)) \in {DOCUMENT_LIST, RAG, WEBSEARCH}
    THEN upper(strip(content))
    ELSE RAG

\* _route_to_agent: the node the conditional edge leads to
route_to_agent(selected_agent) ==
    IF selected_agent = DOCUMENT_LIST THEN "document_list"
    ELSE IF selected_agent = RAG THEN "rag"
    ELSE "web_search"

\* process_query: builds the initial OrchestratorState and invokes the graph
process_query(query) ==
    /\ orchestrator = NoQuery
    /\ agent = Idle
    /\ search = NoSearch
    /\ orchestrator' = [node |-> "route",
                        query |-> query,
                        answer |-> None,
                        selected_agent |-> <<>>,
                        response |-> "",
                        num_sources |-> 0,
                        metadata |-> None,
                        visited |-> <<>>,
                        result |-> None]
    /\ UNCHANGED document_vars
    /\ UNCHANGED <<search, agent, conversation_vars, chat_request, found>>

\* node route: _route_query, then the conditional edge.  answer is what the
\* router LLM returned, None when the call raised.
route_query(answer) ==
    /\ orchestrator.node = "route"
    /\ LET selected_agent == IF answer = None THEN RAG
                             ELSE SelectedAgent(CHOOSE content \in answer : TRUE)
       IN orchestrator' = [orchestrator EXCEPT
                             !.answer = answer,
                             !.selected_agent = selected_agent,
                             !.visited = Append(@, "route"),
                             !.node = route_to_agent(selected_agent)]
    /\ UNCHANGED document_vars
    /\ UNCHANGED <<search, agent, conversation_vars, chat_request, found>>

\* how a handler's call can end: it answers; it catches its own error and
\* answers with an apology; it raises
HandlerOutcomes == {"answered", "apologised", "raised"}

\* node document_list: _execute_document_list_agent
execute_document_list_agent(outcome) ==
    /\ orchestrator.node = "document_list"
    /\ orchestrator' = [orchestrator EXCEPT
          !.response = IF outcome = "answered" THEN "document list"
                       ELSE IF outcome = "apologised"
                       THEN "I apologize, but I encountered an error while retrieving the document list"
                       ELSE "Error retrieving document list",
          !.num_sources = 0,
          !.metadata = Some("document_list"),
          !.visited = Append(@, "document_list"),
          !.node = "END"]
    /\ UNCHANGED document_vars
    /\ UNCHANGED <<search, agent, conversation_vars, chat_request, found>>

\* node web_search: _execute_web_search_agent
execute_web_search_agent(outcome) ==
    /\ orchestrator.node = "web_search"
    /\ orchestrator' = [orchestrator EXCEPT
          !.response = IF outcome = "answered" THEN "web answer"
                       ELSE IF outcome = "apologised"
                       THEN "web search is currently unavailable"
                       ELSE "Error performing web search",
          !.num_sources = IF outcome = "answered" THEN 1 ELSE 0,
          !.metadata = Some("web_search"),
          !.visited = Append(@, "web_search"),
          !.node = "END"]
    /\ UNCHANGED document_vars
    /\ UNCHANGED <<search, agent, conversation_vars, chat_request, found>>

\* node rag: _execute_rag_agent calls self.rag_agent.chat
execute_rag_agent_call ==
    /\ orchestrator.node = "rag"
    /\ chat(orchestrator.query)

\* node rag: rag_agent.chat has returned its dict, or the call raised
execute_rag_agent(outcome) ==
    /\ orchestrator.node = "rag"
    /\ \/ /\ outcome = "answered"
          /\ agent.node = "returned"
          /\ orchestrator' = [orchestrator EXCEPT
                !.response = (CHOOSE r \in agent.response : TRUE).response,
                !.num_sources = (CHOOSE r \in agent.response : TRUE).num_sources,
                !.metadata = Some("rag"),
                !.visited = Append(@, "rag"),
                !.node = "END"]
       \/ /\ outcome = "raised"
          /\ agent = Idle
          /\ orchestrator' = [orchestrator EXCEPT
                !.response = "Error processing query",
                !.num_sources = 0,
                !.metadata = Some("rag"),
                !.visited = Append(@, "rag"),
                !.node = "END"]
    /\ UNCHANGED document_vars
    /\ UNCHANGED <<search, agent, conversation_vars, chat_request, found>>

\* process_query: the graph has ended, the dict it returns
process_query_return ==
    /\ orchestrator.node = "END"
    /\ orchestrator' = [orchestrator EXCEPT
          !.node = "returned",
          !.result = Some([response |-> orchestrator.response,
                           num_sources |-> orchestrator.num_sources,
                           agent_used |-> orchestrator.metadata])]
    /\ UNCHANGED document_vars
    /\ UNCHANGED <<search, agent, conversation_vars, chat_request, found>>

\* the steps of a process_query run, the DocumentAgent graph included
orchestrator_step ==
    \/ \E answer \in {None} \cup {Some(content) : content \in RouterAnswers} :
          route_query(answer)
    \/ \E outcome \in HandlerOutcomes : execute_document_list_agent(outcome)
    \/ \E outcome \in HandlerOutcomes : execute_web_search_agent(outcome)
    \/ execute_rag_agent_call
    \/ \E embed_ok \in BOOLEAN, len \in EmbedderDims : retrieve_context(embed_ok, len)
    \/ \E llm_ok \in BOOLEAN : analyze_context(llm_ok)
    \/ \E llm_ok \in BOOLEAN : generate_response(llm_ok)
    \/ chat_return
    \/ \E outcome \in {"answered", "raised"} : execute_rag_agent(outcome)
    \/ process_query_return

\* DocumentRepository.create_document: commits a new row and returns it
repo_create_document ==
    /\ documents' = documents @@ (next_document_id :> NewDocument)
    /\ next_document_id' = next_document_id + 1
    /\ UNCHANGED <<document_chunks, next_chunk_id, jobs_storage, tmp_files, task,
                   next_tmp, upload_response, deleted>>
    /\ UNCHANGED <<delete_requests, chat_vars>>

\* DocumentRepository.update_document_status, called with any arguments
repo_update_document_status(document_id, status, error_message) ==
    /\ documents' = update_document_status(documents, document_id, status, error_message)
    /\ UNCHANGED <<next_document_id, document_chunks, next_chunk_id, jobs_storage,
                   tmp_files, task, next_tmp, upload_response, deleted>>
    /\ UNCHANGED <<delete_requests, chat_vars>>

\* DocumentRepository.update_document_content, called with any arguments
repo_update_document_content(document_id, num_chunks) ==
    /\ documents' = update_document_content(documents, document_id, Markdown,
                                            Len(Markdown), num_chunks)
    /\ UNCHANGED <<next_document_id, document_chunks, next_chunk_id, jobs_storage,
                   tmp_files, task, next_tmp, upload_response, deleted>>
    /\ UNCHANGED <<delete_requests, chat_vars>>

\* the chunks_data lists a caller can pass: texts in source order, each with
\* no embedding or with a vector of one of the lengths
CallerEmbeddings(text) ==
    {None} \cup {Some([of |-> text, len |-> len]) : len \in EmbedderDims}

CallerChunksData ==
    UNION {{[i \in 1..n |-> [chunk_index |-> i - 1,
                              text |-> SourceText(i),
                              embedding |-> embeddings[i]]] :
              embeddings \in {e \in [1..n -> UNION {CallerEmbeddings(SourceText(i)) : i \in 1..n}] :
                                \A i \in 1..n : e[i] \in CallerEmbeddings(SourceText(i))}} :
           n \in 0..MaxChunks}

\* DocumentRepository.create_chunks_batch, called with any arguments: the
\* rows are committed together, or the call raises and none is
repo_create_chunks_batch(document_id, chunks_data) ==
    /\ document_chunks' = BulkSave(document_chunks, documents, document_id,
                                   chunks_data, next_chunk_id)
    /\ next_chunk_id' = IF BatchValid(documents, document_id, chunks_data)
                         THEN next_chunk_id + Len(chunks_data) ELSE next_chunk_id
    /\ UNCHANGED <<documents, next_document_id, jobs_storage, tmp_files, task,
                   next_tmp, upload_response, deleted>>
    /\ UNCHANGED <<delete_requests, chat_vars>>

\* DocumentRepository.create_chunk, called with any arguments: a batch of
\* one row
repo_create_chunk(document_id, chunk_index, embedding) ==
    LET chunks_data == <<[chunk_index |-> chunk_index,
                          text |-> SourceText(chunk_index + 1),
                          embedding |-> embedding]>>
    IN repo_create_chunks_batch(document_id, chunks_data)

\* --------------------------------------------------------- specification

Next ==
    \/ /\ next_tmp <= MaxUploads
       /\ \E file_extension \in Extensions, has_key, create_ok, unlink_ok \in BOOLEAN,
             tmp_file \in TmpFileOutcomes :
             upload_document(file_extension, has_key, tmp_file, create_ok, unlink_ok)
    \/ \E job_id \in JobIds : process_document_task(job_id)
    \/ \E document_id \in DocIds : delete_document(document_id)
    \/ \E chunk_id \in ChunkIds : delete_chunk(chunk_id)
    \/ \E document_id \in DocIds : delete_chunks_by_document(document_id)

Spec == Init /\ [][Next]_vars

\* every started pipeline run keeps taking steps (a worker thread runs it)
FairSpec == Spec /\ \A job_id \in JobIds : WF_vars(process_document_task(job_id))

\* MaxDocuments uploads: their pipeline runs interleave with one another and
\* with the deletion of their documents
PairNext ==
    \/ /\ next_tmp <= MaxDocuments
       /\ \E file_extension \in Extensions, has_key, create_ok, unlink_ok \in BOOLEAN,
             tmp_file \in TmpFileOutcomes :
             upload_document(file_extension, has_key, tmp_file, create_ok, unlink_ok)
    \/ \E job_id \in 1..MaxDocuments : process_document_task(job_id)
    \/ \E document_id \in 1..MaxDocuments : delete_document(document_id)

PairSpec == Init /\ [][PairNext]_vars

\* the error messages a caller passes to update_document_status
ErrorMessages == {None, Some("error")}

StoreNext ==
    \/ /\ next_document_id <= MaxDocuments
       /\ repo_create_document
    \/ \E document_id \in 1..MaxDocuments, status \in {PROCESSING, COMPLETED, FAILED},
          error_message \in ErrorMessages :
          repo_update_document_status(document_id, status, error_message)
    \/ \E document_id \in 1..MaxDocuments, num_chunks \in 0..MaxChunks :
          repo_update_document_content(document_id, num_chunks)
    \/ \E document_id \in 1..MaxDocuments : delete_document(document_id)

StoreSpec == Init /\ [][StoreNext]_vars

\* the rows the callers of ChunkSpec insert in all
MaxRows == MaxChunks + 1

\* the DocumentRepository's chunk methods under any caller
ChunkNext ==
    \/ /\ next_document_id <= MaxDocuments
       /\ repo_create_document
    \/ \E document_id \in 1..MaxDocuments, chunks_data \in CallerChunksData :
          /\ next_chunk_id + Len(chunks_data) - 1 <= MaxRows
          /\ repo_create_chunks_batch(document_id, chunks_data)
    \/ \E document_id \in 1..MaxDocuments, chunk_index \in 0..(MaxChunks - 1) :
          \E embedding \in CallerEmbeddings(SourceText(chunk_index + 1)) :
             /\ next_chunk_id <= MaxRows
             /\ repo_create_chunk(document_id, chunk_index, embedding)
    \/ \E chunk_id \in 1..MaxRows : delete_chunk(chunk_id)
    \/ \E document_id \in 1..MaxDocuments : delete_chunks_by_document(document_id)
    \/ \E document_id \in 1..MaxDocuments : delete_document(document_id)

ChunkSpec == Init /\ [][ChunkNext]_vars

\* MaxRequests delete requests, handled by the workers of the service at
\* the same time, on the documents and chunks of a store
DeleteNext ==
    \/ /\ next_document_id <= MaxDocuments
       /\ repo_create_document
    \/ \E document_id \in 1..MaxDocuments, chunks_data \in CallerChunksData :
          /\ next_chunk_id = 1
          /\ chunks_data # <<>>
          /\ \A i \in 1..Len(chunks_data) : chunks_data[i].embedding = None
          /\ repo_create_chunks_batch(document_id, chunks_data)
    \/ \E request \in 1..MaxRequests, document_id \in 1..MaxDocuments :
          route_delete_document(request, document_id)
    \/ \E request \in 1..MaxRequests : route_delete_document_delete(request)

DeleteSpec == Init /\ [][DeleteNext]_vars

\* the chunk counts of the documents MaxDocuments complete pipeline runs left
ChunkCounts == [1..MaxDocuments -> 0..MaxChunks]

RECURSIVE ChunksBefore(_, _)
ChunksBefore(counts, document_id) ==
    IF document_id = 1 THEN 0
    ELSE ChunksBefore(counts, document_id - 1) + counts[document_id - 1]

\* the rows the run of document_id inserted, the embedder answering with
\* vectors of the column's length
IngestedRows(counts, document_id) ==
    LET chunks == [i \in 1..counts[document_id] |-> SourceText(i)]
        vectors == [i \in 1..counts[document_id] |->
                       [of |-> chunks[i], len |-> VECTOR_DIMENSION]]
    IN BatchRows(document_id, ChunksData(EmbeddingsData(chunks, vectors)),
                 ChunksBefore(counts, document_id) + 1)

\* the row of a document after its run
IngestedDocument(num_chunks) ==
    UpdateStatusRow([NewDocument EXCEPT !.markdown_content = Some(Markdown),
                                        !.markdown_length = Some(Len(Markdown)),
                                        !.num_chunks = num_chunks],
                    COMPLETED, None)

\* the chat service over a store in which MaxDocuments documents were
\* ingested; the document service's own state is not shared with it
SearchInit ==
    \E counts \in ChunkCounts :
        /\ documents = [d \in 1..MaxDocuments |-> IngestedDocument(counts[d])]
        /\ next_document_id = MaxDocuments + 1
        /\ document_chunks = UNION {IngestedRows(counts, d) : d \in 1..MaxDocuments}
        /\ next_chunk_id = ChunksBefore(counts, MaxDocuments) + counts[MaxDocuments] + 1
        /\ jobs_storage = <<>>
        /\ tmp_files = {}
        /\ task = <<>>
        /\ next_tmp = 1
        /\ upload_response = None
        /\ deleted = {}
        /\ delete_requests = <<>>
        /\ search = NoSearch
        /\ agent = Idle
        /\ orchestrator = NoQuery
        /\ conversations = {}
        /\ next_conversation_id = 1
        /\ messages = <<>>
        /\ chat_request = NoRequest
        /\ found = <<>>

SearchNext ==
    \/ \E query \in Queries, len \in EmbedderDims, limit \in 0..MaxLimit,
          document_id \in Scopes :
          repo_search_similar_chunks(embed_query(query, len), limit, document_id)
    \/ \E query \in Queries : chat(query)
    \/ \E embed_ok \in BOOLEAN, len \in EmbedderDims : retrieve_context(embed_ok, len)
    \/ \E llm_ok \in BOOLEAN : analyze_context(llm_ok)
    \/ \E llm_ok \in BOOLEAN : generate_response(llm_ok)
    \/ chat_return

SearchSpec == SearchInit /\ [][SearchNext]_vars

\* ------------------------------------------------- ConversationRepository

\* a session id is a str: one a client made up, the Gradio interface's, the
\* empty one, or a uuid the repository generated
ClientSessions == {<<"client", 1>>}
GRADIO_SESSION == <<"gradio-session", 0>>
EmptySession == <<"", 0>>
uuid4(n) == <<"uuid", n>>

\* the truth value of a str
NonEmpty(session_id) == session_id # EmptySession

HISTORY_LIMIT == 20

\* get_conversation_by_session: the row with the session_id, None without one
get_conversation_by_session(session_id) ==
    {conversation \in conversations : conversation.session_id = session_id}

\* create_conversation: the row it commits, under a session_id of its own
NewConversation == [id |-> next_conversation_id, session_id |-> uuid4(next_conversation_id)]

\* get_or_create_conversation: the conversation it returns
get_or_create_conversation(session_id) ==
    IF NonEmpty(session_id) /\ get_conversation_by_session(session_id) # None
    THEN CHOOSE conversation \in get_conversation_by_session(session_id) : TRUE
    ELSE NewConversation

add_message_First(table, conversation_id, role, content, sources_count) ==
    <<[id |-> Len(table) + 1,
       conversation_id |-> conversation_id,
       role |-> role,
       content |-> content,
       sources_count |-> sources_count]>> \o table

\* add_message: the table after the INSERT; rows are kept in created_at order
add_message(table, conversation_id, role, content, sources_count) ==
    Append(table, [id |-> Len(table) + 1,
                   conversation_id |-> conversation_id,
                   role |-> role,
                   content |-> content,
                   sources_count |-> sources_count])

\* get_conversation_messages: ORDER BY created_at, LIMIT when limit is truthy
get_conversation_messages(table, conversation_id, limit) ==
    LET rows == SelectSeq(table, LAMBDA message : message.conversation_id = conversation_id)
    IN IF limit = 0 \/ limit >= Len(rows) THEN rows ELSE SubSeq(rows, 1, limit)

\* get_conversation_history: role and content of the conversation's messages
get_conversation_history(rows, table, session_id, limit) ==
    LET conversation == {c \in rows : c.session_id = session_id}
    IN IF conversation = None THEN <<>>
       ELSE LET selected == get_conversation_messages(
                                table, (CHOOSE c \in conversation : TRUE).id, limit)
            IN [i \in 1..Len(selected) |->
                  [role |-> selected[i].role, content |-> selected[i].content]]

\* what process_query returns to the endpoint
ProcessQueryResults ==
    {[response |-> <<"response", n>>, num_sources |-> n] : n \in 0..1}

ChatQueries == {<<"query", i>> : i \in 1..2}

\* the call of the endpoint that raises, None when none does
ChatFailures == {None, Some("get_or_create_conversation"),
                 Some("add_message user"), Some("add_message assistant")}

ChatResponse(response, session_id, num_sources) ==
    [response |-> response, session_id |-> session_id, num_sources |-> num_sources]

\* the state a chat handler leaves: gradio is TRUE for gradio_chat_function,
\* which saves the user message before it loads the history
Chatted(gradio, query, session_id, result, failure) ==
    LET conversation == get_or_create_conversation(session_id)
        rows == conversations \cup {conversation}
        with_user == add_message(messages, conversation.id, "user", query, 0)
        history == get_conversation_history(
                       rows, IF gradio THEN with_user ELSE messages,
                       conversation.session_id, HISTORY_LIMIT)
        with_assistant == add_message(with_user, conversation.id, "assistant",
                                      result.response, result.num_sources)
        failed == HTTPException(500, "Chat processing failed")
    IN IF failure = Some("get_or_create_conversation")
       THEN /\ UNCHANGED <<conversation_vars, found>>
            /\ chat_request' = [pc |-> "responded", session_id |-> session_id,
                                query |-> query, conversation |-> None,
                                history |-> <<>>, response |-> Some(failed)]
       ELSE /\ conversations' = rows
            /\ next_conversation_id' =
                   IF conversation \in conversations THEN next_conversation_id
                   ELSE next_conversation_id + 1
            /\ found' = Append(found, [session_id |-> session_id,
                                       conversation |-> conversation.id])
            /\ messages' = IF failure = Some("add_message user") THEN messages
                           ELSE IF failure = Some("add_message assistant") THEN with_user
                           ELSE with_assistant
            /\ chat_request' =
                   [pc |-> "responded", session_id |-> session_id, query |-> query,
                    conversation |-> Some(conversation.id),
                    history |-> IF failure = Some("add_message user") /\ gradio
                                THEN <<>> ELSE history,
                    response |-> IF failure # None THEN Some(failed)
                                 ELSE Some(ChatResponse(result.response,
                                                        conversation.session_id,
                                                        result.num_sources))]

\* POST /chat/qa
route_chat(query, session_id, result, failure) ==
    /\ Chatted(FALSE, query, session_id, result, failure)
    /\ UNCHANGED document_vars
    /\ UNCHANGED <<search, agent, orchestrator>>

\* the Gradio interface's chat function
gradio_chat_function(message, result, failure) ==
    /\ Chatted(TRUE, message, GRADIO_SESSION, result, failure)
    /\ UNCHANGED document_vars
    /\ UNCHANGED <<search, agent, orchestrator>>

\* the session ids a client can send: its own, the empty one, and the ones
\* earlier responses gave it
RequestSessions ==
    ClientSessions \cup {EmptySession}
        \cup {conversation.session_id : conversation \in conversations}

\* chat requests, one after the other
ConversationNext ==
    /\ Len(found) < MaxRequests
    /\ \E query \in ChatQueries, result \in ProcessQueryResults, failure \in ChatFailures :
          \/ \E session_id \in RequestSessions : route_chat(query, session_id, result, failure)
          \/ gradio_chat_function(query, result, failure)

ConversationSpec == Init /\ [][ConversationNext]_vars

\* ConversationRepository.create_conversation, called directly
repo_create_conversation ==
    /\ conversations' = conversations \cup {NewConversation}
    /\ next_conversation_id' = next_conversation_id + 1
    /\ UNCHANGED <<messages, chat_request, found>>
    /\ UNCHANGED document_vars
    /\ UNCHANGED <<search, agent, orchestrator>>

\* ConversationRepository.add_message, called directly; the foreign key
\* messages.conversation_id -> conversations.id refuses an unknown id
repo_add_message(conversation_id, role, content, sources_count) ==
    /\ \E conversation \in conversations : conversation.id = conversation_id
    /\ messages' = add_message(messages, conversation_id, role, content, sources_count)
    /\ UNCHANGED <<conversations, next_conversation_id, chat_request, found>>
    /\ UNCHANGED document_vars
    /\ UNCHANGED <<search, agent, orchestrator>>

\* ConversationRepository.get_conversation_history, called directly: the
\* call and the list it returned
repo_get_conversation_history(session_id, limit) ==
    /\ chat_request' = [pc |-> "history",
                        session_id |-> session_id,
                        limit |-> limit,
                        history |-> get_conversation_history(
                                        conversations, messages, session_id, limit)]
    /\ UNCHANGED <<conversation_vars, found>>
    /\ UNCHANGED document_vars
    /\ UNCHANGED <<search, agent, orchestrator>>

\* callers of the conversation repository
HistoryNext ==
    \/ /\ next_conversation_id <= MaxRequests
       /\ repo_create_conversation
    \/ /\ Len(messages) < MaxMessages
       /\ \E conversation_id \in 1..MaxRequests, role \in {"user", "assistant"},
             content \in ChatQueries :
             repo_add_message(conversation_id, role, content, 0)
    \/ \E session_id \in RequestSessions, limit \in 0..MaxMessages :
          repo_get_conversation_history(session_id, limit)

HistorySpec == Init /\ [][HistoryNext]_vars

\* one process_query call
OrchestratorNext ==
    \/ \E query \in Queries : process_query(query)
    \/ orchestrator_step

\* the store holds the chunks of one ingested document
OrchestratorInit ==
    /\ SearchInit
    /\ \A d \in 2..MaxDocuments : documents[d].num_chunks = 0

OrchestratorSpec == OrchestratorInit /\ [][OrchestratorNext]_vars

\* the thread that runs process_query keeps running, and every call it makes
\* returns or raises
OrchestratorFairSpec == OrchestratorSpec /\ WF_vars(orchestrator_step)

\* ------------------------------------------------------------ properties

\* process_document_task has returned or raised
Exited(job_id) == job_id \in DOMAIN task /\ task[job_id].pc \in {"returned", "raised"}

\* the run of job_id failed with this message
FailedWith(job_id, errors) ==
    job_id \in DOMAIN task /\ task[job_id].e # None /\ task[job_id].e \subseteq errors

DocumentOf(job_id) == task[job_id].document_id

Terminal == {COMPLETED, FAILED}

\* C1: a document's status only moves from PROCESSING to COMPLETED or to
\* FAILED, and never changes once it is COMPLETED or FAILED.
C1_StatusMonotonic ==
    [][\A d \in DOMAIN documents \cap DOMAIN documents' :
          documents'[d].status # documents[d].status
            => /\ documents[d].status = PROCESSING
               /\ documents'[d].status \in Terminal]_vars

\* C2: every COMPLETED document has num_chunks equal to the number of its
\* persisted chunks, whose chunk_index values are exactly 0..num_chunks-1,
\* each once.
C2_CompletedChunkCount ==
    \A d \in DOMAIN documents :
        documents[d].status = COMPLETED
          => LET rows == get_chunks_by_document(document_chunks, d)
             IN /\ documents[d].num_chunks = Cardinality(rows)
                /\ {c.chunk_index : c \in rows} = 0..(documents[d].num_chunks - 1)
                /\ \A c1, c2 \in rows : c1.chunk_index = c2.chunk_index => c1 = c2

BatchFailures ==
    {"expected 1536 dimensions", "foreign key violation", "create_chunks_batch failed"}

\* C3: when create_chunks_batch fails after the content update, the run ends
\* with the document FAILED, and the document is never COMPLETED without
\* its chunks.
C3_PersistFailureMarksFailed ==
    \A job_id \in DOMAIN task :
        FailedWith(job_id, BatchFailures) /\ DocumentOf(job_id) \in DOMAIN documents
          => /\ documents[DocumentOf(job_id)].status # COMPLETED
             /\ Exited(job_id) => documents[DocumentOf(job_id)].status = FAILED

\* C4: when generate_embeddings raises, the run ends with the document FAILED
\* with an error message, no chunk persisted for it and the temporary file
\* removed.
C4_EmbeddingFailure ==
    \A job_id \in DOMAIN task :
        FailedWith(job_id, {"Embedding generation failed"}) /\ Exited(job_id)
          => /\ DocumentOf(job_id) \in DOMAIN documents
                  => /\ documents[DocumentOf(job_id)].status = FAILED
                     /\ documents[DocumentOf(job_id)].error_message # None
             /\ get_chunks_by_document(document_chunks, DocumentOf(job_id)) = {}
             /\ task[job_id].tmp_file_path \notin tmp_files

\* C5: when process_document_task returns or raises, its temporary file no
\* longer exists.
C5_TempFileRemoved ==
    \A job_id \in DOMAIN task :
        Exited(job_id) => task[job_id].tmp_file_path \notin tmp_files

\* C6: when a stage of the run failed, the run ends with the document FAILED
\* and the job failed, both carrying the captured error message.
C6_FailureRecorded ==
    \A job_id \in DOMAIN task :
        Exited(job_id) /\ task[job_id].e # None
          => /\ jobs_storage[job_id].status = "failed"
             /\ jobs_storage[job_id].error = task[job_id].e
             /\ DocumentOf(job_id) \in DOMAIN documents
                  => /\ documents[DocumentOf(job_id)].status = FAILED
                     /\ documents[DocumentOf(job_id)].error_message
                          = jobs_storage[job_id].error

\* the job is completed or failed and its document, when it still exists,
\* is COMPLETED or FAILED
Settled(job_id) ==
    /\ job_id \in DOMAIN task
    /\ jobs_storage[job_id].status \in {"completed", "failed"}
    /\ DocumentOf(job_id) \in DOMAIN documents
          => documents[DocumentOf(job_id)].status \in Terminal

\* C7: every started pipeline run eventually leaves its job completed or
\* failed and its document, when it still exists, COMPLETED or FAILED.
C7_RunSettles ==
    \A job_id \in JobIds : (job_id \in DOMAIN task) ~> Settled(job_id)

\* the (chunk_index, text, embedding) triples of a set of rows or of a batch
RowItems(rows) == {<<c.chunk_index, c.text, c.embedding>> : c \in rows}
BatchItems(chunks_data) ==
    {<<chunks_data[i].chunk_index, chunks_data[i].text, chunks_data[i].embedding>> :
        i \in 1..Len(chunks_data)}

\* C8: create_chunks_batch is all-or-nothing: with an invalid item in the
\* batch the call raises; when it raises no chunk of the batch is persisted,
\* then or later; when it returns every item of the batch is persisted.
C8_BatchAllOrNothing ==
    /\ [][\A job_id \in DOMAIN task :
            task[job_id].pc = "create_chunks" /\ task'[job_id].pc # "create_chunks"
              => LET chunks_data == ChunksData(task[job_id].embeddings_data)
                     before == get_chunks_by_document(document_chunks, DocumentOf(job_id))
                     after == get_chunks_by_document(document_chunks', DocumentOf(job_id))
                 IN /\ (\E i \in 1..Len(chunks_data) : ~VectorOk(chunks_data[i].embedding))
                          => task'[job_id].pc = "except"
                    /\ task'[job_id].pc = "except" => after = before
                    /\ task'[job_id].pc # "except"
                          => /\ RowItems(after \ before) = BatchItems(chunks_data)
                             /\ Cardinality(after \ before) = Len(chunks_data)]_vars
    /\ [](\A job_id \in DOMAIN task :
            FailedWith(job_id, BatchFailures)
              => get_chunks_by_document(document_chunks, DocumentOf(job_id)) = {})

\* a batch with a vector of the wrong length was rejected, after an item of
\* the right length
C8_Witness ==
    \E job_id \in DOMAIN task :
        /\ FailedWith(job_id, {"expected 1536 dimensions"})
        /\ Exited(job_id)
        /\ get_chunks_by_document(document_chunks, DocumentOf(job_id)) = {}

\* C9: once delete_document(id) has returned True, get_document(id) finds
\* nothing and get_chunks_by_document(id) is empty, whatever a pipeline run
\* of that document does afterwards.
C9_DeletedStaysDeleted ==
    \A d \in deleted :
        /\ get_document(documents, d) = None
        /\ get_chunks_by_document(document_chunks, d) = {}

\* a run whose document was deleted under it tried to insert its chunks
C9_Witness ==
    \E job_id \in DOMAIN task :
        /\ DocumentOf(job_id) \in deleted
        /\ FailedWith(job_id, {"foreign key violation"})
        /\ Exited(job_id)

\* C10: a document's completed_at is set exactly when its status is
\* COMPLETED.
C10_CompletedAtIffCompleted ==
    \A d \in DOMAIN documents :
        documents[d].completed_at # None <=> documents[d].status = COMPLETED

\* C11: update_document_status stores an error message only with the status
\* FAILED, so a document's error_message is non-null only if its status is
\* FAILED.
C11_ErrorOnlyWhenFailed ==
    \A d \in DOMAIN documents :
        documents[d].error_message # None => documents[d].status = FAILED

\* C12: a job entry is created with status processing; its status changes
\* exactly once, when its pipeline run ends, to completed or to failed; once
\* the status has changed the entry is not modified again.
C12_JobChangedOnce ==
    /\ [][\A job_id \in DOMAIN jobs_storage' :
            IF job_id \notin DOMAIN jobs_storage
            THEN jobs_storage'[job_id].status = "processing"
            ELSE jobs_storage'[job_id] # jobs_storage[job_id]
                   => /\ jobs_storage[job_id].status = "processing"
                      /\ jobs_storage'[job_id].status \in {"completed", "failed"}]_vars
    /\ [](\A job_id \in DOMAIN task :
            Exited(job_id) => jobs_storage[job_id].status \in {"completed", "failed"})

\* C13: a job's result is non-null only if its status is completed, and its
\* error is non-null only if its status is failed.
C13_ResultAndErrorMatchStatus ==
    \A job_id \in DOMAIN jobs_storage :
        /\ jobs_storage[job_id].result # None => jobs_storage[job_id].status = "completed"
        /\ jobs_storage[job_id].error # None => jobs_storage[job_id].status = "failed"

\* a run stored its result in its job entry
C13_Witness ==
    \E job_id \in DOMAIN jobs_storage :
        /\ jobs_storage[job_id].result # None
        /\ Exited(job_id)

\* C14 as stated: every upload with an allowed file type and the API key
\* configured answers with status processing, carrying the job id and the
\* document id.
C14_ValidUploadAccepted ==
    [][next_tmp' # next_tmp
         => \A file_extension \in ALLOWED_EXTENSIONS, create_ok, unlink_ok \in BOOLEAN,
               tmp_file \in TmpFileOutcomes :
               upload_document(file_extension, TRUE, tmp_file, create_ok, unlink_ok)
                 => /\ upload_response' # None
                    /\ \A r \in upload_response' :
                          /\ r.detail = "processing"
                          /\ r.job_id = Some(next_tmp)
                          /\ r.document_id = Some(next_document_id)]_vars

\* C14, amended: an upload with an allowed file type and the API key
\* configured, whose temporary file is written and whose create_document
\* call returns, answers with status processing, carrying the job id and the
\* document id, while no stage of that job has run; and no step of a
\* pipeline run changes what the upload call answered.
C14_AcceptedBeforePipeline ==
    [][/\ next_tmp' # next_tmp
            => \A file_extension \in ALLOWED_EXTENSIONS, unlink_ok \in BOOLEAN :
                  upload_document(file_extension, TRUE, "written", TRUE, unlink_ok)
                    => /\ upload_response' # None
                       /\ \A r \in upload_response' :
                             /\ r.status_code = 200
                             /\ r.detail = "processing"
                             /\ r.job_id = Some(next_tmp)
                             /\ r.document_id = Some(next_document_id)
                       /\ next_tmp \notin DOMAIN task
                       /\ task'[next_tmp].pc = "convert"
                       /\ task'[next_tmp].calls = <<>>
                       /\ task'[next_tmp].document_id = next_document_id
                       /\ jobs_storage'[next_tmp].status = "processing"
                       /\ documents'[next_document_id].status = PROCESSING
       /\ upload_response' # upload_response
            => \A job_id \in DOMAIN task : ~process_document_task(job_id)]_vars

\* the upload answered processing and the run of its job has failed since
C14_Witness ==
    \E job_id \in DOMAIN task :
        /\ Exited(job_id)
        /\ task[job_id].e # None
        /\ \E r \in upload_response :
              r.detail = "processing" /\ r.job_id = Some(job_id)

\* the state an upload call can create
upload_state == <<documents, next_document_id, document_chunks, next_chunk_id,
                  jobs_storage, tmp_files, task>>

\* C15: an upload whose file extension is not allowed, or that finds the
\* API key missing, is rejected and creates no document record, no job
\* entry, no temporary file and no background task.
C15_RejectedUploadCreatesNothing ==
    [][next_tmp' # next_tmp
         => \A file_extension \in Extensions, has_key, create_ok, unlink_ok \in BOOLEAN,
               tmp_file \in TmpFileOutcomes :
               (file_extension \notin ALLOWED_EXTENSIONS \/ ~has_key)
                 /\ upload_document(file_extension, has_key, tmp_file, create_ok, unlink_ok)
               => /\ UNCHANGED upload_state
                  /\ \E r \in upload_response' : r.status_code \in {400, 500}]_vars

\* an upload was rejected for its file type
C15_Witness ==
    /\ \E r \in upload_response : r.status_code = 400
    /\ next_tmp > 1
    /\ documents = <<>> /\ jobs_storage = <<>> /\ tmp_files = {} /\ task = <<>>

\* the chunks a search with this document_id argument is about: all of
\* them, or those of that document
InScope(document_id) ==
    IF document_id = None THEN document_chunks
    ELSE {c \in document_chunks : Some(c.document_id) = document_id}

\* C16: search_similar_chunks returns (chunk, distance) pairs of distinct
\* stored chunks in non-decreasing distance, at most limit of them and at
\* most as many as there are eligible chunks; the context the agent builds
\* reports 1 - distance for each result, in non-increasing similarity.
C16_SearchOrderedAndBounded ==
    /\ search.outcome = "returned"
         => LET results == search.results
            IN /\ Len(results) <= search.limit
               /\ search.document_id # Some(0)
                     => Len(results) <= Cardinality(InScope(search.document_id))
               /\ \A i \in 1..Len(results) :
                     /\ results[i].chunk \in document_chunks
                     /\ \A v \in results[i].chunk.embedding :
                           results[i].distance = cosine_distance(v, search.embedding)
               /\ \A i, j \in 1..Len(results) :
                     /\ i < j => results[i].distance <= results[j].distance
                     /\ i # j => results[i].chunk # results[j].chunk
    /\ search.outcome = "returned" /\ agent.node \in {"analyze", "respond", "END", "returned"}
         => /\ Len(agent.context) = Len(search.results)
            /\ \A i \in 1..Len(agent.context) :
                  agent.context[i].similarity = Unit - search.results[i].distance
            /\ \A i, j \in 1..Len(agent.context) :
                  i < j => agent.context[i].similarity >= agent.context[j].similarity

\* a search whose limit cut the list, the nearest chunk first
C16_Witness ==
    /\ search.outcome = "returned"
    /\ search.limit >= 2
    /\ Len(search.results) = search.limit
    /\ Cardinality(InScope(search.document_id)) > search.limit
    /\ search.results[1].distance < search.results[2].distance

\* C17: for every document id D (the ids of documents start at 1),
\* search_similar_chunks with document_id = D returns only chunks of D.
C17_ScopedSearch ==
    search.outcome = "returned"
      => \A D \in search.document_id :
            D >= 1 => \A i \in 1..Len(search.results) :
                         search.results[i].chunk.document_id = D

\* a scoped search returned chunks while another document has chunks too
C17_Witness ==
    /\ search.outcome = "returned"
    /\ \E D \in search.document_id :
          /\ D >= 1
          /\ \E c \in document_chunks : c.document_id # D
    /\ Len(search.results) >= 2

\* C18: with no chunk in the store the search raises no error of its own
\* and a search that returns returns the empty list; the agent's retrieval
\* ends with an empty context, the graph goes on through its nodes, and
\* chat returns a response with no sources.
C18_EmptyStoreIsNoError ==
    document_chunks = {}
      => /\ search.outcome # "none"
              => /\ search.error \subseteq {"OperationalError"}
                 /\ search.results = <<>>
         /\ agent.node \in {"analyze", "respond", "END", "returned"}
              => agent.context = <<>>
         /\ agent.node \in {"respond", "END", "returned"} /\ search.outcome = "returned"
              => agent.analysis = "No relevant documents found in the knowledge base."
         /\ agent.node \in {"END", "returned"} => agent.final_response # ""
         /\ agent.node = "returned"
              => agent.response = Some([response |-> agent.final_response, num_sources |-> 0])
         /\ agent.node \in {"retrieve", "analyze", "respond", "END"}
              => ENABLED (\/ \E embed_ok \in BOOLEAN, len \in EmbedderDims :
                               retrieve_context(embed_ok, len)
                          \/ \E llm_ok \in BOOLEAN : analyze_context(llm_ok)
                          \/ \E llm_ok \in BOOLEAN : generate_response(llm_ok)
                          \/ chat_return)

\* a chat run over an empty store whose search returned has answered
C18_Witness ==
    /\ document_chunks = {}
    /\ search.outcome = "returned"
    /\ agent.node = "returned"
    /\ \E r \in agent.response : r.response = "response" /\ r.num_sources = 0

\* the stages of a run, in the order the claim gives them: convert, chunk,
\* embed, and the three writes of the persist step
StageOrder ==
    <<"convert", "chunk", "embed", "update_content", "create_chunks", "update_status">>

IsPrefix(s, t) == Len(s) <= Len(t) /\ \A i \in 1..Len(s) : s[i] = t[i]

\* C19: a run calls its stages in the order convert, chunk, embed, persist,
\* one after the other and none after a stage has raised; the embedder is
\* called with the whole chunk list the chunker returned; the document's
\* content and chunks are written only after the embedding call returned.
C19_StageOrder ==
    [][\A job_id \in DOMAIN task :
          LET before == task[job_id].calls
              after == task'[job_id].calls
              d == DocumentOf(job_id)
          IN /\ task'[job_id] # task[job_id]
                  => /\ IsPrefix(after, StageOrder)
                     /\ after # before
                          => /\ task[job_id].e = None
                             /\ after = Append(before, StageOrder[Len(before) + 1])
                     /\ task'[job_id].chunks # <<>>
                          /\ task'[job_id].chunks # task[job_id].chunks
                          => before = <<"convert">> /\ task[job_id].markdown_content # None
                     /\ task'[job_id].embeddings_data # <<>>
                          /\ task'[job_id].embeddings_data # task[job_id].embeddings_data
                          => /\ before = <<"convert", "chunk">>
                             /\ Len(task'[job_id].embeddings_data) = Len(task[job_id].chunks)
                             /\ \A i \in 1..Len(task[job_id].chunks) :
                                   task'[job_id].embeddings_data[i].text
                                     = task[job_id].chunks[i]
             /\ documents' # documents \/ ~(document_chunks' \subseteq document_chunks)
                  => ((\/ /\ d \in DOMAIN documents /\ d \in DOMAIN documents'
                          /\ documents'[d].markdown_content # documents[d].markdown_content
                       \/ ~(get_chunks_by_document(document_chunks', d)
                               \subseteq get_chunks_by_document(document_chunks, d)))
                      => /\ IsPrefix(<<"convert", "chunk", "embed">>, before)
                         /\ task[job_id].e = None
                         /\ task[job_id].embeddings_data # <<>>
                              \/ task[job_id].chunks = <<>>)]_vars

\* a run called every stage and its chunks are in the store
C19_Witness ==
    \E job_id \in DOMAIN task :
        /\ task[job_id].calls = StageOrder
        /\ get_chunks_by_document(document_chunks, DocumentOf(job_id)) # {}

\* C20: a step of the pipeline run of document D changes nothing but D's
\* row, D's chunks, the run's temporary file and the run's own job entry:
\* every other document, chunk, job entry, run and temporary file is as
\* before, whatever the other runs are doing.
C20_RunsIndependent ==
    [][\A job_id \in DOMAIN task :
          process_document_task(job_id)
            => LET D == DocumentOf(job_id)
               IN /\ jobs_storage[job_id].document_id = D
                  /\ DOMAIN documents' = DOMAIN documents
                  /\ \A d \in DOMAIN documents \ {D} : documents'[d] = documents[d]
                  /\ {c \in document_chunks' : c.document_id # D}
                        = {c \in document_chunks : c.document_id # D}
                  /\ DOMAIN jobs_storage' = DOMAIN jobs_storage
                  /\ \A j \in DOMAIN jobs_storage \ {job_id} :
                        jobs_storage'[j] = jobs_storage[j]
                  /\ \A j \in DOMAIN task \ {job_id} : task'[j] = task[j]
                  /\ tmp_files' \ {task[job_id].tmp_file_path}
                        = tmp_files \ {task[job_id].tmp_file_path}]_vars

\* two runs are in their persist steps at the same time: one has inserted
\* its chunks, the other is about to
C20_Witness ==
    \E j1, j2 \in DOMAIN task :
        /\ DocumentOf(j1) # DocumentOf(j2)
        /\ task[j1].pc = "update_status"
        /\ get_chunks_by_document(document_chunks, DocumentOf(j1)) # {}
        /\ task[j2].pc = "create_chunks"

\* C21: create_document inserts one document, under an id no document has,
\* with status PROCESSING, num_chunks 0, no content, no error message and no
\* completed_at, and leaves every other document and every chunk as it was.
C21_CreateDocument ==
    [][next_document_id' # next_document_id
         => LET d == next_document_id
            IN /\ d \notin DOMAIN documents
               /\ DOMAIN documents' = DOMAIN documents \cup {d}
               /\ documents'[d].status = PROCESSING
               /\ documents'[d].num_chunks = 0
               /\ documents'[d].markdown_content = None
               /\ documents'[d].markdown_length = None
               /\ documents'[d].error_message = None
               /\ documents'[d].completed_at = None
               /\ \A o \in DOMAIN documents : documents'[o] = documents[o]
               /\ document_chunks' = document_chunks]_vars

\* a document was created while another document had chunks
C21_Witness ==
    /\ next_document_id > 2
    /\ 2 \in DOMAIN documents
    /\ documents[2].status = PROCESSING
    /\ \E c \in document_chunks : c.document_id = 1 /\ c.id = 1

\* C22: update_document_content sets the document's content, content length
\* and chunk count and leaves its status, error_message and completed_at,
\* and every other document, unchanged; called with an id no document has,
\* it changes no state at all.
C22_UpdateContentFrame ==
    [][\A document_id \in 1..MaxDocuments, num_chunks \in 0..MaxChunks :
          repo_update_document_content(document_id, num_chunks)
            => IF document_id \in DOMAIN documents
               THEN /\ DOMAIN documents' = DOMAIN documents
                    /\ documents'[document_id].markdown_content = Some(Markdown)
                    /\ documents'[document_id].markdown_length = Some(Len(Markdown))
                    /\ documents'[document_id].num_chunks = num_chunks
                    /\ documents'[document_id].status = documents[document_id].status
                    /\ documents'[document_id].error_message
                         = documents[document_id].error_message
                    /\ documents'[document_id].completed_at
                         = documents[document_id].completed_at
                    /\ \A o \in DOMAIN documents \ {document_id} :
                          documents'[o] = documents[o]
                    /\ UNCHANGED <<next_document_id, document_chunks, next_chunk_id>>
               ELSE UNCHANGED vars]_vars

\* the content of a FAILED document with an error message was updated, while
\* an id below the sequence has no document
C22_Witness ==
    /\ \E d \in DOMAIN documents :
          /\ documents[d].status = FAILED
          /\ documents[d].error_message # None
          /\ documents[d].markdown_content # None
          /\ documents[d].num_chunks = MaxChunks
    /\ \E d \in 1..(next_document_id - 1) : d \notin DOMAIN documents

\* C23: a delete request that finds no document (at the handler's check, or
\* at the store's delete_document, which then returns False) is answered
\* not-found, also when the document disappears between the two.
C23_MissingIsNotFound ==
    \A request \in DOMAIN delete_requests :
        LET frame == delete_requests[request]
        IN frame.pc = "responded" /\ frame.deleted # Some(TRUE)
             => frame.response = Some(HTTPException(404, "Document not found"))

\* C24: every persisted chunk that has an embedding has one whose length is
\* the embedding_dimension of the document it belongs to.
C24_EmbeddingDimension ==
    \A c \in document_chunks :
        c.embedding # None /\ c.document_id \in DOMAIN documents
          => \A v \in c.embedding : v.len = documents[c.document_id].embedding_dimension

\* a run whose embedder answered for every chunk has persisted its chunks
C24_Witness ==
    \E job_id \in DOMAIN task :
        /\ task[job_id].pc = "update_status"
        /\ DocumentOf(job_id) \in DOMAIN documents
        /\ Cardinality({c \in get_chunks_by_document(document_chunks, DocumentOf(job_id)) :
                          c.embedding # None}) = MaxChunks

\* the stages of the persist step, in the order of the code
PersistOrder == <<"update_content", "create_chunks", "update_status">>

\* the last stage a run called, or None
LastCall(calls) == IF calls = <<>> THEN None ELSE Some(calls[Len(calls)])

\* C26: a run calls create_chunks_batch only directly after its
\* update_document_content call returned, and update_document_status(COMPLETED)
\* only directly after its create_chunks_batch call returned, having committed
\* one row for each embedded chunk; and a document becomes COMPLETED only by
\* that update_document_status call of its own run.
C26_PersistOrder ==
    [][/\ task' # task
            => \A job_id \in DOMAIN task :
                  LET before == task[job_id].calls
                      after == task'[job_id].calls
                      D == DocumentOf(job_id)
                  IN after # before
                       => /\ LastCall(after) = Some("create_chunks")
                               => /\ LastCall(before) = Some("update_content")
                                  /\ task[job_id].e = None
                                  /\ task'[job_id].e = None
                                       => Cardinality(get_chunks_by_document(document_chunks', D)
                                                        \ document_chunks)
                                            = Len(task[job_id].embeddings_data)
                          /\ LastCall(after) = Some("update_status")
                               => /\ LastCall(before) = Some("create_chunks")
                                  /\ task[job_id].e = None
       /\ documents' # documents
            => \A d \in DOMAIN documents \cap DOMAIN documents' :
                  documents'[d].status = COMPLETED /\ documents[d].status # COMPLETED
                    => \E job_id \in DOMAIN task :
                          /\ DocumentOf(job_id) = d
                          /\ task[job_id].e = None
                          /\ LastCall(task[job_id].calls) = Some("create_chunks")
                          /\ task'[job_id].calls = Append(task[job_id].calls, "update_status")]_vars

\* a run has written COMPLETED on a document whose rows it had inserted
C26_Witness ==
    \E job_id \in DOMAIN task :
        /\ task[job_id].pc = "unlink"
        /\ LastCall(task[job_id].calls) = Some("update_status")
        /\ DocumentOf(job_id) \in DOMAIN documents
        /\ documents[DocumentOf(job_id)].status = COMPLETED
        /\ Cardinality(get_chunks_by_document(document_chunks, DocumentOf(job_id))) = MaxChunks

\* how often a run has called a stage
TimesCalled(calls, stage) == Cardinality({i \in 1..Len(calls) : calls[i] = stage})

\* C27: a run calls the converter, the chunker and the embedding step at
\* most once each and calls no stage after one has raised; it calls the
\* embedder at most once, and an embedding step that returned has called it
\* exactly once, with the texts of all the chunks in their order, for any
\* number of chunks.
C27_OneCallPerStage ==
    [][task' # task
         => \A job_id \in DOMAIN task :
               LET before == task[job_id]
                   after == task'[job_id]
               IN after # before =>
                  /\ \A stage \in {"convert", "chunk", "embed"} :
                        TimesCalled(after.calls, stage) <= 1
                  /\ before.e # None
                       => after.calls = before.calls /\ after.requests = before.requests
                  /\ after.requests # before.requests
                       => /\ before.pc = "embed"
                          /\ before.requests = 0
                          /\ after.requests = 1
                  /\ before.pc = "embed" /\ after.pc = StageAfter("embed")
                       => /\ after.requests = 1
                          /\ Len(after.embeddings_data) = Len(before.chunks)
                          /\ \A i \in 1..Len(before.chunks) :
                                after.embeddings_data[i].embedding.of = before.chunks[i]]_vars

\* the embedding step of a run with MaxChunks chunks has returned
C27_Witness ==
    \E job_id \in DOMAIN task :
        /\ task[job_id].pc = "update_content"
        /\ Len(task[job_id].chunks) = MaxChunks
        /\ Len(task[job_id].embeddings_data) = MaxChunks
        /\ task[job_id].requests = 1

\* C28: in every COMPLETED document, the persisted chunk with chunk_index i
\* holds the text of the chunk the chunker produced at position i (counting
\* from 0) and the vector the embedder returned for that text.
C28_ChunkHoldsItsTextAndVector ==
    \A d \in DOMAIN documents :
        documents[d].status = COMPLETED
          => \A c \in get_chunks_by_document(document_chunks, d) :
                /\ c.text = SourceText(c.chunk_index + 1)
                /\ c.embedding # None
                /\ \A v \in c.embedding : v.of = c.text

\* a run has returned and its COMPLETED document has the chunks of every
\* index 0..MaxChunks-1
C28_Witness ==
    \E job_id \in DOMAIN task :
        /\ task[job_id].pc = "returned"
        /\ DocumentOf(job_id) \in DOMAIN documents
        /\ documents[DocumentOf(job_id)].status = COMPLETED
        /\ {c.chunk_index : c \in get_chunks_by_document(document_chunks, DocumentOf(job_id))}
              = 0..(MaxChunks - 1)

\* C29: no step changes a field of a persisted chunk, and a chunk leaves the
\* table only by delete_chunk on its id, delete_chunks_by_document on its
\* document, or delete_document on its document.
C29_ChunksImmutable ==
    [][document_chunks' # document_chunks
         => \A c \in document_chunks :
               /\ \A n \in document_chunks' : n.id = c.id => n = c
               /\ c \notin document_chunks'
                    => \/ delete_chunk(c.id)
                       \/ delete_chunks_by_document(c.document_id)
                       \/ delete_document(c.document_id)]_vars

\* a document holds two chunks with the same chunk_index, from two inserts
C29_Witness ==
    \E c1, c2 \in document_chunks :
        /\ c1.document_id = c2.document_id
        /\ c1.chunk_index = c2.chunk_index
        /\ c1.id < c2.id
        /\ c1.embedding # c2.embedding


Handlers == {"document_list", "rag", "web_search"}

\* the handler nodes a run went through, in order
Handled(visited) == SelectSeq(visited, LAMBDA node : node \in Handlers)

C25_SameSessionSameConversation ==
    \A i, j \in DOMAIN found :
        found[i].session_id = found[j].session_id
            => found[i].conversation = found[j].conversation


\* C31: a process_query run that was handled by RAG, and whose retrieval
\* returned no chunks, went on to the web-search handler before it returned.
C31_RagFallsBackToWebSearch ==
    /\ orchestrator.node = "returned"
    /\ \E i \in DOMAIN orchestrator.visited : orchestrator.visited[i] = "rag"
    /\ agent.node = "returned"
    /\ search.outcome = "returned"
    /\ search.results = <<>>
    => \E i \in DOMAIN orchestrator.visited : orchestrator.visited[i] = "web_search"


\* the edges of the DocumentAgent graph, with the call and the return of chat
GraphOrder ==
    {<<"idle", "retrieve">>, <<"retrieve", "analyze">>, <<"retrieve", "respond">>,
     <<"analyze", "respond">>, <<"respond", "END">>, <<"END", "returned">>}

\* C32: every step of the RAG agent graph follows the order retrieve,
\* analyze, respond, end, so no node is visited twice; the step out of
\* retrieve skips analyze and goes to respond exactly when the retrieval
\* raised (embed_query or the search); final_response is set when the graph
\* reaches its end; and every run that enters retrieve returns.
C32_GraphTerminatesInOrder ==
    /\ [][agent' # agent =>
            /\ <<agent.node, agent'.node>> \in GraphOrder
            /\ agent.node = "retrieve" =>
                 (agent'.node = "respond" <=> search'.outcome # "returned")
            /\ agent'.node = "END" =>
                 /\ agent'.final_response # ""
                 /\ agent'.final_response # agent.final_response]_vars
    /\ (agent.node = "retrieve" ~> agent.node = "returned")

\* a run whose search raised has returned without an analysis
C32_Witness ==
    /\ agent.node = "returned"
    /\ search.outcome = "raised"
    /\ agent.analysis = ""
    /\ \E r \in agent.response : r.response = agent.final_response /\ r.response # ""


\* C33: every step leaves the messages stored so far as they are, in their
\* order, and only adds after them; a chat request (the endpoint's or the
\* Gradio function's) that returns a response has added exactly two
\* messages, both to its conversation and after that conversation's earlier
\* messages: the user's query, then the assistant's response with its
\* source count.
C33_MessagesAppendOnly ==
    [][/\ Len(messages') >= Len(messages)
       /\ SubSeq(messages', 1, Len(messages)) = messages
       /\ (/\ found' # found
           /\ chat_request'.response # Some(HTTPException(500, "Chat processing failed")))
          => LET conversation_id == found'[Len(found')].conversation
                 before == get_conversation_messages(messages, conversation_id, 0)
                 after == get_conversation_messages(messages', conversation_id, 0)
             IN /\ Len(messages') = Len(messages) + 2
                /\ Len(after) = Len(before) + 2
                /\ SubSeq(after, 1, Len(before)) = before
                /\ after[Len(before) + 1].role = "user"
                /\ after[Len(before) + 1].content = chat_request'.query
                /\ after[Len(before) + 2].role = "assistant"
                /\ \E response \in chat_request'.response :
                      /\ after[Len(before) + 2].content = response.response
                      /\ after[Len(before) + 2].sources_count = response.num_sources]_vars

\* two requests that returned a response were recorded in one conversation
C33_Witness ==
    \E conversation \in conversations :
        LET log == get_conversation_messages(messages, conversation.id, 0)
        IN /\ Len(log) = 4
           /\ [i \in 1..4 |-> log[i].role] = <<"user", "assistant", "user", "assistant">>


\* C34: in every state, a job whose status is completed has a document
\* that, if it still exists, has status COMPLETED, and a job whose status is
\* failed has a document that, if it still exists, has status FAILED.
C34_JobAgreesWithDocument ==
    \A job_id \in DOMAIN jobs_storage :
        \A document \in get_document(documents, jobs_storage[job_id].document_id) :
            /\ jobs_storage[job_id].status = "completed" => document.status = COMPLETED
            /\ jobs_storage[job_id].status = "failed" => document.status = FAILED


\* a run failed after it had marked its document COMPLETED (the temporary
\* file could not be removed): the job is failed and the document is FAILED
C34_Witness ==
    \E job_id \in DOMAIN jobs_storage :
        \E document \in get_document(documents, jobs_storage[job_id].document_id) :
            /\ jobs_storage[job_id].status = "failed"
            /\ document.status = FAILED
            /\ document.completed_at # None


\* C35: in every state, a job whose status is completed has a result and a
\* completed_at, and a job whose status is failed has an error and a
\* completed_at.
C35_NoHalfFinishedJob ==
    \A job_id \in DOMAIN jobs_storage :
        /\ jobs_storage[job_id].status = "completed"
             => /\ jobs_storage[job_id].result # None
                /\ jobs_storage[job_id].completed_at # None
        /\ jobs_storage[job_id].status = "failed"
             => /\ jobs_storage[job_id].error # None
                /\ jobs_storage[job_id].completed_at # None


\* C36: in every state, the document_id of every persisted chunk is the id
\* of an existing document, however delete_document interleaves with the
\* pipeline runs.
C36_NoOrphanChunks ==
    \A c \in document_chunks : get_document(documents, c.document_id) # None

\* a document was deleted while its run was in flight, after the run had
\* saved its chunks: the chunks went with it
C36_Witness ==
    \E job_id \in DOMAIN task :
        /\ task[job_id].pc = StageAfter("create_chunks")
        /\ Len(task[job_id].chunks) > 0
        /\ DocumentOf(job_id) \in deleted
        /\ get_chunks_by_document(document_chunks, DocumentOf(job_id)) = {}


\* the last n elements of a sequence
Latest(log, n) == SubSeq(log, Len(log) - n + 1, Len(log))

\* C37: a get_conversation_history(session, limit=n) call with n >= 1 on a
\* conversation that holds more than n messages returns the role and content
\* of the n most recently added messages, in creation order.
C37_HistoryIsMostRecent ==
    [][chat_request' # chat_request /\ chat_request'.pc = "history"
         => \A conversation \in get_conversation_by_session(chat_request'.session_id) :
               LET log == get_conversation_messages(messages, conversation.id, 0)
                   n == chat_request'.limit
               IN n >= 1 /\ Len(log) > n
                    => chat_request'.history =
                         [i \in 1..n |-> [role |-> Latest(log, n)[i].role,
                                          content |-> Latest(log, n)[i].content]]]_vars


====
